---- MODULE Spec2Model ----
(***************************************************************************)
(* Model of the Nomi <-> LLM bridge: the three poll passes                 *)
(* (poll-nomi-messages, auto-poll-nomis, the frontend pollNomiMessages),   *)
(* the nomi-chatgpt-bridge action dispatcher and the delete+recreate       *)
(* "remove member" workaround together with the frontend that calls it.    *)
(*                                                                         *)
(* Texts are sequences of one-character strings, so that trim(),           *)
(* endsWith() and substring() are computed and not assumed.                *)
(***************************************************************************)
EXTENDS Integers, Sequences, FiniteSets, TLC

VARIABLES
  variant,            \* which poll pass implementation runs: "all" | "auto" | "frontend"
  env,                \* configured environment keys of the edge function
  chat,               \* remote chat history per Nomi (GET /v1/nomis/{uuid}/chat)
  nomi_messages,      \* the nomi_messages table (append order)
  tick,               \* number of poll passes started so far
  pc,                 \* position of the running poll pass
  i,                  \* index of the current Nomi / selection in the pass
  j,                  \* index of the current message of the current Nomi
  messages,           \* messagesData.messages of the current Nomi
  question,           \* the message text being answered
  answer,             \* the answer about to be sent
  processedMessages,  \* processedMessages of the running pass
  totalMessagesFound, \* totalMessagesFound of the running pass
  response,           \* response of the last finished pass
  sent,               \* every reply delivered to the remote chat
  aiCalls,            \* every completion request issued
  visited,            \* Nomis whose messages were requested in the running pass
  faults,             \* failures met in the running pass
  storeFault,         \* a store call has failed at some time
  nfaults,            \* number of upstream/store failures injected so far
  selected_nomis,     \* rows of the selected_nomis table
  room,               \* the frontend's room state (useState<Room | null>)
  passRoom,           \* the room captured by the running frontend pass
  retired,            \* room ids replaced by a successful remove-nomi-from-room
  staleUse,           \* a frontend request named a retired room id
  rooms,              \* the rooms held by the remote chat service
  nextRoom,           \* the id the remote gives to the next room it creates
  user_api_keys,      \* the signed-in user has a chat API key stored
  breq,               \* the request the bridge is handling (or handled last)
  bpc,                \* position of the bridge inside a multi-call handler
  bcalls,             \* upstream calls made for the request, in order
  bresp,              \* the response of the bridge to the request
  bhandler,           \* the handler the request was routed to
  rm,                 \* locals of the add / remove handler
  rooms0,             \* the remote rooms when the request arrived
  fpc,                \* position of the frontend's membership flow
  toast,              \* the last toast shown to the user
  clicks,             \* number of membership clicks so far
  served,             \* number of requests the bridge has accepted from clients
  requests,           \* the request-chat invocations of the frontend passes, in order
  failed,             \* Nomis for which an AI call or a send failed in the running pass
  lost,               \* positions in sent of the replies whose insert did not complete
  runs,               \* the passes invoked side by side: position and locals of each
  autoSelectedNomis,  \* the page's set of selected (Nomi, room) keys (useState<Set<string>>)
  unanswered,         \* the running pass awaits an upstream call that never answers
  trim                \* one application of trimToLastPunctuation: arguments and result

pollVars == <<variant, env, chat, nomi_messages, tick, pc, i, j, messages, question,
              answer, processedMessages, totalMessagesFound, response, sent,
              aiCalls, visited, faults, storeFault, nfaults, selected_nomis, passRoom>>

cfgVars == <<variant, env, chat, selected_nomis>>

passVars == <<nomi_messages, tick, pc, i, j, messages, question, answer, processedMessages,
              totalMessagesFound, response, sent, aiCalls, visited, faults, storeFault,
              passRoom>>

frontVars == <<room, retired, staleUse>>

bridgeVars == <<rooms, nextRoom, user_api_keys, served, breq, bpc, bcalls, bresp, bhandler, rm,
                rooms0>>

uiVars == <<fpc, toast, clicks>>

logVars == <<requests, failed, lost>>

trimVars == <<trim>>

runVars == <<runs>>

auxVars == <<autoSelectedNomis, unanswered>>

vars == <<pollVars, frontVars, bridgeVars, uiVars, logVars, trimVars, runVars, auxVars, auxVars>>

----------------------------------------------------------------------------
(* Bounds *)

MaxTicks == 2
MaxHistory == 2
MaxFaults == 1
MaxRooms == 3
MaxClicks == 2
MaxRequests == 2
MaxLen == 3
LongLen == 850
PunctAt == 780

NULL == "null"      \* an absent identifier (undefined / null)
NoRoomId == 0       \* an absent room id
NoText == <<>>      \* an absent or empty text

----------------------------------------------------------------------------
(* Text helpers *)

WS == {" "}

Substring(s, from, to) ==
  \* JavaScript s.substring(from, to) with 0-based from, exclusive to
  IF to <= from THEN <<>> ELSE SubSeq(s, from + 1, to)

RECURSIVE TrimStart(_)
TrimStart(s) ==
  IF s = <<>> THEN s
  ELSE IF Head(s) \in WS THEN TrimStart(Tail(s)) ELSE s

RECURSIVE TrimEnd(_)
TrimEnd(s) ==
  IF s = <<>> THEN s
  ELSE IF s[Len(s)] \in WS THEN TrimEnd(SubSeq(s, 1, Len(s) - 1)) ELSE s

Trim(s) == TrimEnd(TrimStart(s))

EndsWith(s, c) == Len(s) > 0 /\ s[Len(s)] = c

LastIndexOf(s, c) ==
  \* JavaScript lastIndexOf: 0-based index of the last c, -1 when absent
  LET hits == {k \in 1..Len(s) : s[k] = c}
  IN IF hits = {} THEN -1 ELSE (CHOOSE k \in hits : \A h \in hits : h <= k) - 1

MAX_MESSAGE_LENGTH == 800

punctuationMarks == <<".", "!", "?", ";", ":", ",">>

RECURSIVE LastPunctuationFrom(_, _, _)
LastPunctuationFrom(truncated, m, best) ==
  IF m > Len(punctuationMarks) THEN best
  ELSE LET index == LastIndexOf(truncated, punctuationMarks[m])
       IN LastPunctuationFrom(truncated, m + 1, IF index > best THEN index ELSE best)

trimToLastPunctuation_ellipsis(text, maxLength) ==
  IF Len(text) <= maxLength THEN text
  ELSE Substring(text, 0, maxLength) \o <<".", ".", ".">>

trimToLastPunctuation(text, maxLength) ==
  IF Len(text) <= maxLength THEN text
  ELSE LET truncated == Substring(text, 0, maxLength)
           lastPunctuationIndex == LastPunctuationFrom(truncated, 1, -1)
       IN IF lastPunctuationIndex > 0
          THEN Substring(truncated, 0, lastPunctuationIndex + 1)
          ELSE truncated

IsQuestion(text) == EndsWith(Trim(text), "?")

\* one application of trimToLastPunctuation
Trimming(text, maxLength, result, done) ==
  [text |-> text, maxLength |-> maxLength, result |-> result, done |-> done]

NoTrim == Trimming(NoText, MAX_MESSAGE_LENGTH, NoText, FALSE)

----------------------------------------------------------------------------
(* The remote side and the inputs it can produce *)

nomis == <<"n1", "n2">>          \* nomisData.nomis / room.nomis, in list order
Nomis == {nomis[k] : k \in 1..Len(nomis)}

HELLO == <<"h", "i">>
ASKS == <<"o", "k", "?">>
ASKS_SP == <<" ", "o", "k", "?", " ">>
ASKS_ASIDE == <<"o", "k", "?", "*", "x", "*">>
USERTEXT == <<"u", "?">>
PROMPT == <<"A", "s", "k", " ", "m", "e", " ", "a", " ", "q", "u", "e", "s", "t", "i", "o", "n">>

NomiTexts == {HELLO, ASKS, ASKS_SP, ASKS_ASIDE}

Message(sentBy, text) == [sent |-> sentBy, text |-> text]

fromNomi_any(message) == TRUE

\* the origin test of the passes of the edge functions
fromNomi(message) == message.sent = "nomi"

RemoteMessages == {Message("nomi", t) : t \in NomiTexts} \cup {Message("user", USERTEXT)}

RECURSIVE SeqsUpTo(_, _)
SeqsUpTo(S, n) ==
  IF n = 0 THEN {<<>>}
  ELSE LET shorter == SeqsUpTo(S, n - 1)
       IN shorter \cup {Append(s, x) : s \in {t \in shorter : Len(t) = n - 1}, x \in S}

Histories == SeqsUpTo(RemoteMessages, MaxHistory)

\* the remote histories considered: at most MaxHistory messages over all Nomis
Chats == {c \in [Nomis -> Histories] : Len(c["n1"]) + Len(c["n2"]) <= MaxHistory}

\* an upstream or store call may fail while the failure budget lasts
Outcome(out) ==
  /\ out = "ok" \/ nfaults < MaxFaults
  /\ nfaults' = IF out = "ok" THEN nfaults ELSE nfaults + 1

SHORT_ANSWER == <<"y", "e", "s", ".">>
LONG_ANSWER == [k \in 1..LongLen |-> IF k = PunctAt THEN "." ELSE "a"]
AiAnswers == {SHORT_ANSWER, LONG_ANSWER}

EnvKeys == {"LOVABLE_API_KEY", "NOMI_API_KEY", "SUPABASE"}
Environments == {EnvKeys} \cup {EnvKeys \ {k} : k \in EnvKeys}

configured_nostore(e) == {"LOVABLE_API_KEY", "NOMI_API_KEY"} \subseteq e

\* the credential checks at the start of a pass of the edge functions
configured(e) == EnvKeys \subseteq e

Room(id, name, members) == [id |-> id, name |-> name, nomis |-> members]
NoRoom == Room(NoRoomId, NULL, <<>>)
ROOM_NAME == "Inquisitorium"

Selections == <<[nomi_uuid |-> "n1", room_uuid |-> NoRoomId],
                [nomi_uuid |-> "n2", room_uuid |-> 1]>>

\* the response of a pass: status, the success and processedCount members and
\* the names of all members of its JSON body
Response(status, success, count, keys) ==
  [status |-> status, success |-> success, processedCount |-> count, keys |-> keys]

NoResponse == Response(0, FALSE, 0, {})

\* the outer catch of the edge functions
ErrorResponse == Response(500, FALSE, 0, {"error", "timestamp"})

AllKeys == {"success", "totalNomis", "totalMessagesFound", "processedCount",
            "processedMessages", "rawResponses", "timestamp"}

AutoKeys == {"success", "processedCount", "processedMessages", "timestamp"}

\* the passes that may be invoked side by side
Passes == {1, 2}

\* position and locals of one invocation of a pass
NoRun ==
  [pc |-> "idle", i |-> 1, j |-> 1, messages |-> <<>>, question |-> NoText,
   answer |-> NoText, processed |-> <<>>, unseen |-> {}, detached |-> {}, status |-> 0]

NoRuns == [p \in Passes |-> NoRun]

----------------------------------------------------------------------------
(* MessageStore *)

Record(uuid, text, q, a, type) ==
  [nomi_uuid |-> uuid, message_text |-> text, question |-> q, answer |-> a,
   message_type |-> type]

storeInsert_upsert(table, record) ==
  LET same == {k \in 1..Len(table) : /\ table[k].nomi_uuid = record.nomi_uuid
                                     /\ table[k].message_text = record.message_text}
  IN IF same = {} THEN Append(table, record)
     ELSE [table EXCEPT ![CHOOSE k \in same : \A h \in same : k <= h] = record]

storeInsert_unique(table, record) ==
  IF \E k \in 1..Len(table) :
       table[k].nomi_uuid = record.nomi_uuid /\ table[k].message_text = record.message_text
  THEN table
  ELSE Append(table, record)

\* insert into nomi_messages: the table has no key besides the generated id
storeInsert(table, record) == Append(table, record)

existingMessages_byNomi(uuid, text) ==
  {k \in 1..Len(nomi_messages) : nomi_messages[k].nomi_uuid = uuid}

existingMessages(uuid, text) ==
  \* select id from nomi_messages where nomi_uuid = uuid and message_text = text
  {k \in 1..Len(nomi_messages) :
     nomi_messages[k].nomi_uuid = uuid /\ nomi_messages[k].message_text = text}

----------------------------------------------------------------------------
(* Shared pieces of a poll pass *)

PassIdle == pc = "idle"

StartFields ==
  /\ tick' = tick + 1
  /\ i' = 1
  /\ j' = 1
  /\ messages' = <<>>
  /\ question' = <<>>
  /\ answer' = <<>>
  /\ processedMessages' = <<>>
  /\ totalMessagesFound' = 0
  /\ visited' = {}
  /\ faults' = {}
  /\ failed' = {}

\* the outer catch: the pass ends with a 500 response
Abort(fault) ==
  /\ pc' = "idle"
  /\ response' = ErrorResponse
  /\ faults' = faults \cup {fault}

----------------------------------------------------------------------------
(* nomi-chatgpt-bridge: request bodies, responses and the handlers that   *)
(* keep no state between their upstream calls                             *)

Body(action, roomId, nomiUuid, message, q, name) ==
  [action |-> action, roomId |-> roomId, nomiUuid |-> nomiUuid, message |-> message,
   question |-> q, name |-> name]

Resp(status, success, reason, error, data) ==
  [status |-> status, success |-> success, reason |-> reason, error |-> error,
   data |-> data, newRoomId |-> NoRoomId, upstream |-> <<>>]

Call(op, roomId, out) == [op |-> op, room |-> roomId, out |-> out]

Handled(resp, calls) == [resp |-> resp, calls |-> calls]

\* JavaScript !x for an identifier and for a text
NoId(x) == x = NULL \/ x = ""
NoRoomRef(x) == x = NoRoomId
Empty(t) == t = NoText

\* the outer catch of the bridge
Caught(message, calls) == Handled(Resp(500, FALSE, NULL, message, NoText), calls)

\* the status and body text of an upstream answer
NOT_READY == "RoomNomiNotReadyForMessage"

Answer(out) ==
  CASE out = "ok" -> [status |-> 200, body |-> "ok"]
    [] out = "notready" -> [status |-> 400, body |-> NOT_READY]
    [] out = "badrequest" -> [status |-> 400, body |-> "InvalidRequest"]
    [] OTHER -> [status |-> 500, body |-> "InternalError"]

IsOk(a) == a.status \in 200..299

UpstreamError(carried) ==
  [Resp(200, FALSE, "upstream_error", NULL, NoText) EXCEPT !.upstream = carried]

requestChat_any400(body, up, reply) ==
  IF NoRoomRef(body.roomId) THEN Caught("roomId is required", <<>>)
  ELSE LET calls == <<Call("POST chat/request", body.roomId, up)>>
           a == Answer(up)
       IN CASE up = "throw" -> Caught("fetch", calls)
            [] IsOk(a) -> Handled(Resp(200, TRUE, NULL, NULL, reply), calls)
            [] a.status = 400 ->
                 Handled(Resp(200, FALSE, "not_ready", NULL, NoText), calls)
            [] OTHER -> Handled(UpstreamError(<<a>>), calls)

requestChat(body, up, reply) ==
  IF NoRoomRef(body.roomId) THEN Caught("roomId is required", <<>>)
  ELSE LET calls == <<Call("POST chat/request", body.roomId, up)>>
           a == Answer(up)
       IN CASE up = "throw" -> Caught("fetch", calls)
            [] IsOk(a) -> Handled(Resp(200, TRUE, NULL, NULL, reply), calls)
            [] a.status = 400 /\ a.body = NOT_READY ->
                 Handled(Resp(200, FALSE, "not_ready", NULL, NoText), calls)
            [] OTHER -> Handled(UpstreamError(<<a>>), calls)

askChatgpt(body, lovableKey, up, rawAnswer) ==
  IF Empty(body.question) THEN Caught("question is required", <<>>)
  ELSE IF ~lovableKey THEN Caught("LOVABLE_API_KEY is not configured", <<>>)
  ELSE LET calls == <<Call("POST completions", NoRoomId, up)>>
       IN IF up = "ok" THEN Handled(Resp(200, TRUE, NULL, NULL, rawAnswer), calls)
          ELSE Caught("AI API error", calls)

sendMessage_both(body, primary, fallback) ==
  IF NoId(body.nomiUuid) \/ Empty(body.message) \/ NoRoomRef(body.roomId)
  THEN Caught("nomiUuid, roomId, and message are required", <<>>)
  ELSE LET first == Call("POST rooms/chat", body.roomId, primary)
           second == Call("POST nomis/chat", NoRoomId, fallback)
       IN CASE primary = "throw" -> Caught("fetch", <<first>>)
            [] fallback = "throw" -> Caught("fetch", <<first, second>>)
            [] IsOk(Answer(primary)) \/ IsOk(Answer(fallback)) ->
                 Handled(Resp(200, TRUE, NULL, NULL, NoText), <<first, second>>)
            [] OTHER -> Handled(UpstreamError(<<Answer(fallback)>>), <<first, second>>)

sendMessage(body, primary, fallback) ==
  IF NoId(body.nomiUuid) \/ Empty(body.message) \/ NoRoomRef(body.roomId)
  THEN Caught("nomiUuid, roomId, and message are required", <<>>)
  ELSE LET first == Call("POST rooms/chat", body.roomId, primary)
           second == Call("POST nomis/chat", NoRoomId, fallback)
       IN CASE primary = "throw" -> Caught("fetch", <<first>>)
            [] IsOk(Answer(primary)) ->
                 Handled(Resp(200, TRUE, NULL, NULL, NoText), <<first>>)
            [] fallback = "throw" -> Caught("fetch", <<first, second>>)
            [] IsOk(Answer(fallback)) ->
                 Handled(Resp(200, TRUE, NULL, NULL, NoText), <<first, second>>)
            [] OTHER -> Handled(UpstreamError(<<Answer(fallback)>>), <<first, second>>)

getRoomMessages_strict(body, primary, fallback, msgs) ==
  LET first == Call("GET rooms/messages", body.roomId, primary)
      second == Call("GET rooms/chat", body.roomId, fallback)
  IN CASE primary = "ok" -> Handled(Resp(200, TRUE, NULL, NULL, msgs), <<first>>)
       [] primary = "throw" -> Caught("fetch", <<first>>)
       [] fallback = "ok" -> Handled(Resp(200, TRUE, NULL, NULL, msgs), <<first, second>>)
       [] OTHER -> Caught("Nomi API error in get-room-messages", <<first, second>>)

getRoomMessages(body, primary, fallback, msgs) ==
  LET first == Call("GET rooms/messages", body.roomId, primary)
      second == Call("GET rooms/chat", body.roomId, fallback)
  IN CASE primary = "ok" -> Handled(Resp(200, TRUE, NULL, NULL, msgs), <<first>>)
       [] primary = "throw" -> Caught("fetch", <<first>>)
       [] fallback = "ok" -> Handled(Resp(200, TRUE, NULL, NULL, msgs), <<first, second>>)
       [] fallback = "throw" -> Caught("fetch", <<first, second>>)
       [] OTHER -> Handled(Resp(200, TRUE, NULL, NULL, <<>>), <<first, second>>)

getNomiMessages(body, up, msgs) ==
  IF NoId(body.nomiUuid)
  THEN Handled(Resp(400, FALSE, NULL, "nomiUuid is required", NoText), <<>>)
  ELSE LET calls == <<Call("GET nomis/chat", NoRoomId, up)>>
       IN CASE up = "ok" -> Handled(Resp(200, TRUE, NULL, NULL, msgs), calls)
            [] up = "throw" -> Caught("fetch", calls)
            [] OTHER -> Handled(Resp(200, TRUE, NULL, NULL, <<>>), calls)

listNomis(up) ==
  LET calls == <<Call("GET nomis", NoRoomId, up)>>
  IN IF up = "ok" THEN Handled(Resp(200, TRUE, NULL, NULL, nomis), calls)
     ELSE Caught("Nomi API error in list-nomis", calls)

unknownAction == Handled(Resp(400, FALSE, NULL, "Unknown action", NoText), <<>>)

\* replies delivered by the calls of one send-message request
Delivered(calls) == SelectSeq(calls, LAMBDA c : c.out = "ok")

----------------------------------------------------------------------------
(* The remote room service *)

RemoteRoom(uuid, name, bc, members) ==
  [uuid |-> uuid, name |-> name, backchannelingEnabled |-> bc, nomis |-> members]

NoRemoteRoom == RemoteRoom(NoRoomId, NULL, FALSE, {})

\* POST /v1/rooms, DELETE /v1/rooms/{id}, PUT /v1/rooms/{id} as the remote applies them
RemoteCreate(rs, uuid, name, bc, members) == rs \cup {RemoteRoom(uuid, name, bc, members)}
RemoteDelete(rs, uuid) == {r \in rs : r.uuid # uuid}
RemotePut(rs, uuid, name, bc, members) ==
  RemoteDelete(rs, uuid) \cup {RemoteRoom(uuid, name, bc, members)}

findRoom_any(rs, roomId) ==
  IF rs # {} THEN CHOOSE r \in rs : TRUE ELSE NoRemoteRoom

\* roomsData.rooms?.find(r => r.uuid === roomId)
findRoom(rs, roomId) ==
  IF \E r \in rs : r.uuid = roomId THEN CHOOSE r \in rs : r.uuid = roomId
  ELSE NoRemoteRoom

SeqOf(members) == SelectSeq(nomis, LAMBDA n : n \in members)

----------------------------------------------------------------------------
(* nomi-chatgpt-bridge: the dispatcher and the handlers that change rooms *)

KnownActions ==
  {"list-nomis", "list-rooms", "create-room", "add-nomi-to-room",
   "remove-nomi-from-room", "get-room-messages", "request-chat",
   "get-nomi-messages", "send-message", "ask-chatgpt"}

Request(auth, json, body, from) ==
  [auth |-> auth, json |-> json, body |-> body, from |-> from]

NoBody == Body(NULL, NoRoomId, NULL, NoText, NoText, NULL)
NoRequest == Request("none", TRUE, NoBody, "nobody")
Flow(at, op) == [at |-> at, op |-> op]
NoRm == [room |-> NoRemoteRoom, ids |-> {}, list |-> <<>>]
NoResp == Resp(0, FALSE, NULL, NULL, NoText)

\* the if-chain of the unauthenticated predecessor: an unmatched body is a webhook
handlerFor_legacy(body) == IF body.action \in KnownActions THEN body.action ELSE "webhook"

\* the if-chain on body.action: the handler a request body is routed to
handlerFor(body) == IF body.action \in KnownActions THEN body.action ELSE "unknown"

\* the checks made before the action is looked at
prelude(auth, keys, json) ==
  CASE auth = "none" ->
         Handled(Resp(401, FALSE, NULL, "Missing authorization header", NoText), <<>>)
    [] auth = "invalid" -> Handled(Resp(401, FALSE, NULL, "Unauthorized", NoText), <<>>)
    [] ~keys -> Caught("Nomi API key not configured. Please add it in Settings.", <<>>)
    [] ~json -> Caught("Unexpected end of JSON input", <<>>)
    [] OTHER -> Handled(NoResp, <<>>)

remainingNomiUuids_unfiltered(r, nomiUuid) == r.nomis

remainingNomiUuids(r, nomiUuid) == {uuid \in r.nomis : uuid # nomiUuid}

\* Array.from(new Set(list)): the first occurrence of every element, in order
RECURSIVE uniqueList(_)
uniqueList(list) ==
  IF list = <<>> THEN <<>>
  ELSE LET front == uniqueList(SubSeq(list, 1, Len(list) - 1))
           last == list[Len(list)]
       IN IF \E k \in 1..Len(front) : front[k] = last THEN front ELSE Append(front, last)

Elements(list) == {list[k] : k \in 1..Len(list)}

updatedNomiUuids_appended(r, nomiUuid) == Append(SeqOf(r.nomis), nomiUuid)

updatedNomiUuids(r, nomiUuid) == uniqueList(Append(SeqOf(r.nomis), nomiUuid))

replaceMembers_flagless(rs, roomId, r, list) ==
  RemotePut(rs, roomId, r.name, TRUE, Elements(list))

\* the PUT of add-nomi-to-room: name and flag of the fetched room, the new list
replaceMembers(rs, roomId, r, list) ==
  RemotePut(rs, roomId, r.name, r.backchannelingEnabled, Elements(list))

removeDecision_members(r, remaining) ==
  CASE r = NoRemoteRoom -> "notfound"
    [] remaining = r.nomis -> "notfound"
    [] remaining = {} -> "last"
    [] OTHER -> "delete"

removeDecision_nolast(r, remaining) ==
  CASE r = NoRemoteRoom -> "notfound"
    [] OTHER -> "delete"

\* what the remove handler does once the room list is in: respond or delete
removeDecision(r, remaining) ==
  CASE r = NoRemoteRoom -> "notfound"
    [] remaining = {} -> "last"
    [] OTHER -> "delete"

FetchRoomsFailed == Resp(500, FALSE, NULL, "Failed to fetch rooms", NoText)
RoomNotFound == Resp(404, FALSE, NULL, "Room not found", NoText)
CannotRemoveLast ==
  Resp(400, FALSE, NULL, "Cannot remove last Nomi from room. Delete the room instead.", NoText)
DeleteFailed == Resp(500, FALSE, NULL, "Failed to delete room", NoText)
RecreateFailed == Resp(500, FALSE, NULL, "Failed to recreate room", NoText)
Thrown == Resp(500, FALSE, NULL, "fetch", NoText)
RoomOk(uuid) == [Resp(200, TRUE, NULL, NULL, NoText) EXCEPT !.newRoomId = uuid]

Finish(resp) ==
  /\ bresp' = resp
  /\ bpc' = "idle"

listRooms(rs, up) ==
  IF up = "ok"
  THEN Handled([Resp(200, TRUE, NULL, NULL, NoText) EXCEPT !.data = rs],
               <<Call("GET rooms", NoRoomId, up)>>)
  ELSE Caught("Nomi API error in list-rooms", <<Call("GET rooms", NoRoomId, up)>>)

\* the request ends without any upstream call
Reject(h, name) ==
  /\ Finish(h.resp)
  /\ bcalls' = h.calls
  /\ bhandler' = name
  /\ rm' = NoRm
  /\ UNCHANGED <<rooms, nextRoom, nfaults>>

\* the messages a successful upstream read returns
RemoteChat == <<Message("nomi", HELLO)>>

\* the handlers that answer from one or two upstream reads or sends
Stateless(body, name) ==
  \E up \in {"ok", "notready", "badrequest", "fail", "throw"}, up2 \in {"ok", "fail"},
     reply \in {NoText, ASKS} :
    LET h == CASE name = "list-nomis" -> listNomis(up)
               [] name = "list-rooms" -> listRooms(rooms, up)
               [] name = "get-room-messages" -> getRoomMessages(body, up, up2, RemoteChat)
               [] name = "request-chat" -> requestChat(body, up, reply)
               [] name = "get-nomi-messages" -> getNomiMessages(body, up, RemoteChat)
               [] name = "send-message" -> sendMessage(body, up, up2)
               [] name = "ask-chatgpt" -> askChatgpt(body, TRUE, up, SHORT_ANSWER)
               [] OTHER -> unknownAction
        used == Len(h.calls)
    IN /\ (up = "notready" => name = "request-chat")
       /\ (up = "badrequest" => name \in {"request-chat", "send-message"})
       /\ (used = 0 => (up = "ok" /\ up2 = "ok"))
       /\ (used = 1 => up2 = "ok")
       /\ (~(name = "request-chat" /\ up = "ok") => reply = NoText)
       /\ Outcome(up)
       /\ Finish(h.resp)
       /\ bcalls' = h.calls
       /\ bhandler' = name
       /\ rm' = NoRm
       /\ UNCHANGED <<rooms, nextRoom>>

\* one request enters the bridge
Accept(req) ==
  /\ bpc = "idle"
  /\ breq' = req
  /\ rooms0' = rooms
  /\ LET pre == prelude(req.auth, user_api_keys, req.json)
         body == req.body
         name == handlerFor(body)
     IN IF pre.resp # NoResp THEN Reject(pre, "none")
        ELSE CASE name = "create-room" ->
                    /\ nextRoom <= MaxRooms
                    /\ bpc' = "create"
                    /\ bcalls' = <<>>
                    /\ bhandler' = name
                    /\ bresp' = NoResp
                    /\ rm' = NoRm
                    /\ UNCHANGED <<rooms, nextRoom, nfaults>>
               [] name = "add-nomi-to-room" ->
                    IF NoRoomRef(body.roomId) \/ NoId(body.nomiUuid)
                    THEN Reject(Handled(Resp(400, FALSE, NULL,
                                             "roomId and nomiUuid are required", NoText),
                                        <<>>), name)
                    ELSE /\ bpc' = "add_fetch"
                         /\ bcalls' = <<>>
                         /\ bhandler' = name
                         /\ bresp' = NoResp
                         /\ rm' = NoRm
                         /\ UNCHANGED <<rooms, nextRoom, nfaults>>
               [] name = "remove-nomi-from-room" ->
                    /\ nextRoom <= MaxRooms
                    /\ bpc' = "rm_fetch"
                    /\ bcalls' = <<>>
                    /\ bhandler' = name
                    /\ bresp' = NoResp
                    /\ rm' = NoRm
                    /\ UNCHANGED <<rooms, nextRoom, nfaults>>
               [] OTHER -> Stateless(body, name)

\* create-room; the clients modelled send backchannelingEnabled: true
BridgeCreate ==
  /\ bpc = "create"
  /\ \E out \in {"ok", "fail", "throw", "lost"} :
       /\ Outcome(out)
       /\ bcalls' = Append(bcalls, Call("POST rooms", NoRoomId, out))
       /\ IF out \in {"ok", "lost"}
          THEN /\ rooms' = RemoteCreate(rooms, nextRoom, breq.body.name, TRUE, {})
               /\ nextRoom' = nextRoom + 1
          ELSE UNCHANGED <<rooms, nextRoom>>
       /\ CASE out = "ok" -> Finish(RoomOk(nextRoom))
            [] out = "fail" ->
                 Finish(Resp(500, FALSE, NULL, "Nomi API error in create-room", NoText))
            [] OTHER -> Finish(Thrown)
  /\ UNCHANGED <<cfgVars, logVars, trimVars, runVars, auxVars, passVars, frontVars, uiVars, user_api_keys, served, breq, bhandler, rm,
                 rooms0>>

AddFetch ==
  /\ bpc = "add_fetch"
  /\ \E out \in {"ok", "fail", "throw"} :
       LET r == findRoom(rooms, breq.body.roomId)
       IN /\ Outcome(out)
          /\ bcalls' = Append(bcalls, Call("GET rooms", NoRoomId, out))
          /\ CASE out = "fail" -> Finish(FetchRoomsFailed) /\ UNCHANGED rm
               [] out = "throw" -> Finish(Thrown) /\ UNCHANGED rm
               [] out = "ok" /\ r = NoRemoteRoom -> Finish(RoomNotFound) /\ UNCHANGED rm
               [] OTHER ->
                    /\ rm' = [room |-> r, ids |-> {},
                              list |-> updatedNomiUuids(r, breq.body.nomiUuid)]
                    /\ bpc' = "add_put"
                    /\ UNCHANGED bresp
  /\ UNCHANGED <<cfgVars, logVars, trimVars, runVars, auxVars, passVars, frontVars, uiVars, rooms, nextRoom, user_api_keys, served, breq,
                 bhandler, rooms0>>

AddPut ==
  /\ bpc = "add_put"
  /\ \E out \in {"ok", "fail", "throw", "lost"} :
       /\ Outcome(out)
       /\ bcalls' = Append(bcalls, Call("PUT rooms", breq.body.roomId, out))
       /\ rooms' = IF out \in {"ok", "lost"}
                   THEN replaceMembers(rooms, breq.body.roomId, rm.room, rm.list)
                   ELSE rooms
       /\ CASE out = "ok" -> Finish(RoomOk(breq.body.roomId))
            [] out = "fail" ->
                 Finish(Resp(500, FALSE, NULL, "Nomi API error in add-nomi-to-room", NoText))
            [] OTHER -> Finish(Thrown)
  /\ UNCHANGED <<cfgVars, logVars, trimVars, runVars, auxVars, passVars, frontVars, uiVars, nextRoom, user_api_keys, served, breq,
                 bhandler, rm, rooms0>>

\* Step 1 and 2 of remove-nomi-from-room: fetch the rooms, compute the remaining Nomis
RemoveFetch ==
  /\ bpc = "rm_fetch"
  /\ \E out \in {"ok", "fail", "throw"} :
       LET r == findRoom(rooms, breq.body.roomId)
           remaining == remainingNomiUuids(r, breq.body.nomiUuid)
           decision == removeDecision(r, remaining)
       IN /\ Outcome(out)
          /\ bcalls' = Append(bcalls, Call("GET rooms", NoRoomId, out))
          /\ CASE out = "fail" -> Finish(FetchRoomsFailed) /\ UNCHANGED rm
               [] out = "throw" -> Finish(Thrown) /\ UNCHANGED rm
               [] out = "ok" /\ decision = "notfound" -> Finish(RoomNotFound) /\ UNCHANGED rm
               [] out = "ok" /\ decision = "last" -> Finish(CannotRemoveLast) /\ UNCHANGED rm
               [] OTHER ->
                    /\ rm' = [room |-> r, ids |-> remaining, list |-> <<>>]
                    /\ bpc' = "rm_delete"
                    /\ UNCHANGED bresp
  /\ UNCHANGED <<cfgVars, logVars, trimVars, runVars, auxVars, passVars, frontVars, uiVars, rooms, nextRoom, user_api_keys, served, breq,
                 bhandler, rooms0>>

\* the step after a DELETE that answered with the given outcome
afterDelete(out) ==
  CASE out = "ok" -> "rm_create"
    [] OTHER -> "idle"

\* Step 3: delete the existing room
RemoveDelete ==
  /\ bpc = "rm_delete"
  /\ \E out \in {"ok", "fail", "throw", "lost"} :
       /\ Outcome(out)
       /\ bcalls' = Append(bcalls, Call("DELETE rooms", breq.body.roomId, out))
       /\ rooms' = IF out \in {"ok", "lost"} THEN RemoteDelete(rooms, breq.body.roomId)
                   ELSE rooms
       /\ bpc' = afterDelete(out)
       /\ bresp' = CASE out = "ok" -> bresp
                     [] out = "fail" -> DeleteFailed
                     [] OTHER -> Thrown
  /\ UNCHANGED <<cfgVars, logVars, trimVars, runVars, auxVars, passVars, frontVars, uiVars, nextRoom, user_api_keys, served, breq,
                 bhandler, rm, rooms0>>

\* Step 4: recreate the room with the remaining Nomis
RemoveCreate ==
  /\ bpc = "rm_create"
  /\ \E out \in {"ok", "fail", "throw", "lost"} :
       /\ Outcome(out)
       /\ bcalls' = Append(bcalls, Call("POST rooms", NoRoomId, out))
       /\ IF out \in {"ok", "lost"}
          THEN /\ rooms' = RemoteCreate(rooms, nextRoom, rm.room.name,
                                        rm.room.backchannelingEnabled, rm.ids)
               /\ nextRoom' = nextRoom + 1
          ELSE UNCHANGED <<rooms, nextRoom>>
       /\ CASE out = "ok" -> Finish(RoomOk(nextRoom))
            [] out = "fail" -> Finish(RecreateFailed)
            [] OTHER -> Finish(Thrown)
  /\ UNCHANGED <<cfgVars, logVars, trimVars, runVars, auxVars, passVars, frontVars, uiVars, user_api_keys, served, breq,
                 bhandler, rm, rooms0>>

BridgeSteps ==
  \/ BridgeCreate \/ AddFetch \/ AddPut \/ RemoveFetch \/ RemoveDelete \/ RemoveCreate

\* the request bodies a client may send
RoomRefs == 0..MaxRooms

Bodies ==
  {Body(a, NoRoomId, NULL, NoText, NoText, NULL) : a \in {"list-nomis", "list-rooms"}}
  \cup {Body(a, NoRoomId, n, m, NoText, NULL) :
          a \in {"webhook", NULL}, n \in {NULL, "n1"}, m \in {NoText, ASKS}}
  \cup {Body("create-room", NoRoomId, NULL, NoText, NoText, name) : name \in {"", ROOM_NAME}}
  \cup {Body(a, r, n, NoText, NoText, NULL) :
          a \in {"add-nomi-to-room", "remove-nomi-from-room", "request-chat"},
          r \in RoomRefs, n \in {NULL, "n1", "n2"}}
  \cup {Body("get-room-messages", r, NULL, NoText, NoText, NULL) : r \in RoomRefs}
  \cup {Body("get-nomi-messages", NoRoomId, n, NoText, NoText, NULL) : n \in {NULL, "n1"}}
  \cup {Body("send-message", r, n, m, NoText, NULL) :
          r \in {NoRoomId, 1}, n \in {NULL, "n1"}, m \in {NoText, HELLO}}
  \cup {Body("ask-chatgpt", NoRoomId, NULL, NoText, q, NULL) : q \in {NoText, ASKS}}

BridgeReceive ==
  /\ served < MaxRequests
  /\ served' = served + 1
  /\ \E auth \in {"none", "invalid", "valid"}, json \in BOOLEAN, body \in Bodies :
       /\ (auth # "valid" \/ ~json) => body = NoBody
       /\ auth # "valid" => json
       /\ Accept(Request(auth, json, body, "client"))
  /\ UNCHANGED <<cfgVars, logVars, trimVars, runVars, auxVars, passVars, frontVars, uiVars, user_api_keys>>

BridgeInit ==
  /\ variant = "bridge"
  /\ env = EnvKeys
  /\ chat = [n \in Nomis |-> <<>>]
  /\ selected_nomis = <<>>
  /\ nomi_messages = <<>>
  /\ tick = 0
  /\ pc = "idle"
  /\ i = 1
  /\ j = 1
  /\ messages = <<>>
  /\ question = <<>>
  /\ answer = <<>>
  /\ processedMessages = <<>>
  /\ totalMessagesFound = 0
  /\ response = NoResponse
  /\ sent = <<>>
  /\ aiCalls = <<>>
  /\ visited = {}
  /\ faults = {}
  /\ storeFault = FALSE
  /\ nfaults = 0
  /\ passRoom = NoRoom
  /\ room = NoRoom
  /\ retired = {}
  /\ staleUse = FALSE
  /\ \E bc \in BOOLEAN, members \in {{"n1"}, {"n1", "n2"}} :
       rooms = {RemoteRoom(1, ROOM_NAME, bc, members)}
  /\ nextRoom = 2
  /\ user_api_keys \in BOOLEAN
  /\ served = 0
  /\ breq = NoRequest
  /\ bpc = "idle"
  /\ bcalls = <<>>
  /\ bresp = NoResp
  /\ bhandler = "none"
  /\ rm = NoRm
  /\ rooms0 = {}
  /\ fpc = Flow("idle", "none")
  /\ toast = "none"
  /\ clicks = 0
  /\ requests = <<>>
  /\ failed = {}
  /\ lost = {}
  /\ runs = NoRuns
  /\ autoSelectedNomis = {}
  /\ unanswered = FALSE
  /\ trim = NoTrim

BridgeNext == BridgeReceive \/ BridgeSteps

SpecBridge == BridgeInit /\ [][BridgeNext]_vars

----------------------------------------------------------------------------
(* poll-nomi-messages: the all-characters pass *)

AllStart ==
  /\ variant = "all"
  /\ PassIdle
  /\ tick < MaxTicks
  /\ StartFields
  /\ IF configured(env)
     THEN /\ pc' = "listNomis"
          /\ response' = NoResponse
     ELSE /\ pc' = "idle"
          /\ response' = ErrorResponse
  /\ UNCHANGED <<cfgVars, requests, lost, trimVars, runVars, auxVars, bridgeVars, uiVars, nomi_messages, sent, aiCalls, storeFault, nfaults, frontVars, passRoom>>

AllListNomis ==
  /\ variant = "all"
  /\ pc = "listNomis"
  /\ \E out \in {"ok", "fail", "throw"} :
       /\ Outcome(out)
       /\ IF out = "ok"
          THEN /\ pc' = "getChat"
               /\ UNCHANGED <<response, faults>>
          ELSE Abort("nomis")
  /\ UNCHANGED <<cfgVars, logVars, trimVars, runVars, auxVars, bridgeVars, uiVars, frontVars, passRoom, nomi_messages, tick, i, j, messages, question,
                 answer, processedMessages, totalMessagesFound, sent, aiCalls,
                 visited, storeFault>>

AllGetChat ==
  /\ variant = "all"
  /\ pc = "getChat"
  /\ i <= Len(nomis)
  /\ visited' = visited \cup {nomis[i]}
  /\ \E out \in {"ok", "fail", "throw"} :
       /\ Outcome(out)
       /\ CASE out = "ok" ->
                 /\ messages' = chat[nomis[i]]
                 /\ totalMessagesFound' = totalMessagesFound + Len(chat[nomis[i]])
                 /\ j' = 1
                 /\ pc' = "message"
                 /\ UNCHANGED <<i, response, faults>>
            [] out = "fail" ->
                 /\ i' = i + 1
                 /\ faults' = faults \cup {"fetch"}
                 /\ UNCHANGED <<messages, totalMessagesFound, j, pc, response>>
            [] out = "throw" ->
                 /\ Abort("fetchBody")
                 /\ UNCHANGED <<messages, totalMessagesFound, j, i>>
  /\ UNCHANGED <<cfgVars, logVars, trimVars, runVars, auxVars, bridgeVars, uiVars, frontVars, passRoom, nomi_messages, tick, question, answer,
                 processedMessages, sent, aiCalls, storeFault>>

\* the for loops ran out: the 200 response
AllRespond ==
  /\ variant = "all"
  /\ pc = "getChat"
  /\ i > Len(nomis)
  /\ pc' = "idle"
  /\ response' = Response(200, TRUE, Len(processedMessages), AllKeys)
  /\ UNCHANGED <<cfgVars, logVars, trimVars, runVars, auxVars, bridgeVars, uiVars, frontVars, passRoom, nomi_messages, tick, i, j, messages, question,
                 answer, processedMessages, totalMessagesFound, sent, aiCalls,
                 visited, faults, storeFault, nfaults>>

AllNextNomi ==
  /\ variant = "all"
  /\ pc = "message"
  /\ j > Len(messages)
  /\ i' = i + 1
  /\ pc' = "getChat"
  /\ UNCHANGED <<cfgVars, logVars, trimVars, runVars, auxVars, bridgeVars, uiVars, frontVars, passRoom, nomi_messages, tick, j, messages, question,
                 answer, processedMessages, totalMessagesFound, response, sent,
                 aiCalls, visited, faults, storeFault, nfaults>>

AllSkipUser ==
  /\ variant = "all"
  /\ pc = "message"
  /\ j <= Len(messages)
  /\ ~fromNomi(messages[j])
  /\ j' = j + 1
  /\ UNCHANGED <<cfgVars, logVars, trimVars, runVars, auxVars, bridgeVars, uiVars, frontVars, passRoom, nomi_messages, tick, pc, i, messages, question,
                 answer, processedMessages, totalMessagesFound, response, sent,
                 aiCalls, visited, faults, storeFault, nfaults>>

AllCheckMessage ==
  /\ variant = "all"
  /\ pc = "message"
  /\ j <= Len(messages)
  /\ fromNomi(messages[j])
  /\ \E out \in {"ok", "fail"} :
       LET data == IF out = "ok" THEN existingMessages(nomis[i], messages[j].text) ELSE {}
       IN /\ Outcome(out)
          /\ storeFault' = (storeFault \/ out = "fail")
          /\ IF data # {}
             THEN /\ j' = j + 1
                  /\ UNCHANGED <<pc, question>>
             ELSE IF IsQuestion(messages[j].text)
                  THEN /\ question' = messages[j].text
                       /\ pc' = "ai"
                       /\ UNCHANGED j
                  ELSE /\ pc' = "insertRegular"
                       /\ UNCHANGED <<j, question>>
  /\ UNCHANGED <<cfgVars, logVars, trimVars, runVars, auxVars, bridgeVars, uiVars, frontVars, passRoom, nomi_messages, tick, i, messages, answer,
                 processedMessages, totalMessagesFound, response, sent, aiCalls,
                 visited, faults>>

AllAskAI ==
  /\ variant = "all"
  /\ pc = "ai"
  /\ aiCalls' = Append(aiCalls, [nomi |-> nomis[i], prompt |-> question, tick |-> tick])
  /\ \E out \in {"ok", "fail", "nocontent"} :
       /\ Outcome(out)
       /\ failed' = IF out = "fail" THEN failed \cup {nomis[i]} ELSE failed
       /\ CASE out = "ok" ->
                 /\ \E rawAnswer \in AiAnswers :
                      answer' = trimToLastPunctuation(rawAnswer, MAX_MESSAGE_LENGTH)
                 /\ pc' = "send"
                 /\ UNCHANGED <<j, response, faults>>
            [] out = "fail" ->
                 /\ j' = j + 1
                 /\ pc' = "message"
                 /\ faults' = faults \cup {"ai"}
                 /\ UNCHANGED <<answer, response>>
            [] out = "nocontent" ->
                 /\ Abort("aiBody")
                 /\ UNCHANGED <<answer, j>>
  /\ UNCHANGED <<cfgVars, requests, lost, trimVars, runVars, auxVars, bridgeVars, uiVars, frontVars, passRoom, nomi_messages, tick, i, messages, question,
                 processedMessages, totalMessagesFound, sent, visited, storeFault>>

AllSend ==
  /\ variant = "all"
  /\ pc = "send"
  /\ \E out \in {"ok", "fail"} :
       /\ Outcome(out)
       /\ IF out = "ok"
          THEN /\ sent' = Append(sent, [nomi |-> nomis[i], re |-> messages[j].text,
                                        text |-> answer, room |-> NoRoomId, tick |-> tick])
               /\ pc' = "insert"
               /\ UNCHANGED <<j, faults>>
          ELSE /\ j' = j + 1
               /\ pc' = "message"
               /\ faults' = faults \cup {"send"}
               /\ UNCHANGED sent
       /\ failed' = IF out = "ok" THEN failed ELSE failed \cup {nomis[i]}
  /\ UNCHANGED <<cfgVars, requests, lost, trimVars, runVars, auxVars, bridgeVars, uiVars, frontVars, passRoom, nomi_messages, tick, i, messages, question, answer,
                 processedMessages, totalMessagesFound, response, aiCalls, visited,
                 storeFault>>

AllInsertChatgpt ==
  /\ variant = "all"
  /\ pc = "insert"
  /\ \E out \in {"ok", "fail", "crash"} :
       LET dbError == out = "fail"
           crashed == out = "crash"
       IN /\ Outcome(out)
          /\ nomi_messages' =
               IF dbError \/ crashed THEN nomi_messages
               ELSE storeInsert(nomi_messages,
                           Record(nomis[i], messages[j].text, question, answer, "chatgpt"))
          /\ lost' = IF dbError \/ crashed THEN lost \cup {Len(sent)} ELSE lost
          /\ storeFault' = (storeFault \/ dbError \/ crashed)
          /\ faults' = CASE dbError -> faults \cup {"store"}
                         [] crashed -> faults \cup {"crash"}
                         [] OTHER -> faults
          /\ IF crashed
             THEN /\ pc' = "idle"
                  /\ response' = NoResponse
                  /\ UNCHANGED <<processedMessages, j>>
             ELSE /\ processedMessages' =
                       Append(processedMessages, [nomiUuid |-> nomis[i], text |-> question,
                                                  messageType |-> "chatgpt"])
                  /\ j' = j + 1
                  /\ pc' = "message"
                  /\ UNCHANGED response
  /\ UNCHANGED <<cfgVars, requests, failed, trimVars, runVars, auxVars, bridgeVars, uiVars, frontVars, passRoom, tick, i, messages, question, answer,
                 totalMessagesFound, sent, aiCalls, visited>>

AllInsertRegular ==
  /\ variant = "all"
  /\ pc = "insertRegular"
  /\ \E out \in {"ok", "fail"} :
       LET dbError == out = "fail"
       IN /\ Outcome(out)
          /\ nomi_messages' =
               IF dbError THEN nomi_messages
               ELSE storeInsert(nomi_messages,
                           Record(nomis[i], messages[j].text, NoText, NoText, "regular"))
          /\ processedMessages' =
               IF dbError THEN processedMessages
               ELSE Append(processedMessages,
                           [nomiUuid |-> nomis[i], text |-> messages[j].text,
                            messageType |-> "regular"])
          /\ storeFault' = (storeFault \/ dbError)
          /\ faults' = IF dbError THEN faults \cup {"store"} ELSE faults
  /\ j' = j + 1
  /\ pc' = "message"
  /\ UNCHANGED <<cfgVars, logVars, trimVars, runVars, auxVars, bridgeVars, uiVars, frontVars, passRoom, tick, i, messages, question, answer,
                 totalMessagesFound, response, sent, aiCalls, visited>>

AllPass ==
  \/ AllStart \/ AllListNomis \/ AllGetChat \/ AllRespond \/ AllNextNomi
  \/ AllSkipUser \/ AllCheckMessage \/ AllAskAI \/ AllSend
  \/ AllInsertChatgpt \/ AllInsertRegular

----------------------------------------------------------------------------
(* auto-poll-nomis: the selection-based pass *)

AUTO_LIMIT == 800
AUTO_CUT == 797
ELLIPSIS == <<".", ".", ".">>

nomiMessages(msgs) == SelectSeq(msgs, fromNomi)

\* Array.prototype.find: the first element that satisfies the test
latestQuestion(msgs) ==
  LET qs == SelectSeq(nomiMessages(msgs), LAMBDA m : IsQuestion(m.text))
  IN IF qs = <<>> THEN Message(NULL, <<>>) ELSE Head(qs)

autoTruncate(text) ==
  IF Len(text) > AUTO_LIMIT THEN Substring(text, 0, AUTO_CUT) \o ELLIPSIS ELSE text

AutoStart ==
  /\ variant = "auto"
  /\ PassIdle
  /\ tick < MaxTicks
  /\ StartFields
  /\ IF configured(env)
     THEN /\ pc' = "select"
          /\ response' = NoResponse
     ELSE /\ pc' = "idle"
          /\ response' = ErrorResponse
  /\ UNCHANGED <<cfgVars, requests, lost, trimVars, runVars, auxVars, bridgeVars, uiVars, frontVars, passRoom, nomi_messages, sent, aiCalls, storeFault,
                 nfaults>>

AutoSelect ==
  /\ variant = "auto"
  /\ pc = "select"
  /\ \E out \in {"ok", "fail"} :
       /\ Outcome(out)
       /\ storeFault' = (storeFault \/ out = "fail")
       /\ CASE out = "fail" -> Abort("select")
            [] out = "ok" /\ selected_nomis = <<>> ->
                 /\ pc' = "idle"
                 /\ response' = Response(200, FALSE, 0, {"message", "processedCount"})
                 /\ UNCHANGED faults
            [] OTHER ->
                 /\ pc' = "getChat"
                 /\ UNCHANGED <<response, faults>>
  /\ UNCHANGED <<cfgVars, logVars, trimVars, runVars, auxVars, bridgeVars, uiVars, frontVars, passRoom, nomi_messages, tick, i, j, messages, question,
                 answer, processedMessages, totalMessagesFound, sent, aiCalls, visited>>

AutoGetChat ==
  /\ variant = "auto"
  /\ pc = "getChat"
  /\ i <= Len(selected_nomis)
  /\ visited' = visited \cup {selected_nomis[i].nomi_uuid}
  /\ \E out \in {"ok", "fail", "throw"} :
       /\ Outcome(out)
       /\ CASE out = "ok" ->
                 LET msgs == chat[selected_nomis[i].nomi_uuid]
                     found == latestQuestion(msgs)
                 IN /\ messages' = msgs
                    /\ IF found.sent = NULL
                       THEN /\ i' = i + 1
                            /\ UNCHANGED <<pc, question>>
                       ELSE /\ question' = Trim(found.text)
                            /\ pc' = "ai"
                            /\ UNCHANGED i
                    /\ UNCHANGED <<response, faults>>
            [] out = "fail" ->
                 /\ i' = i + 1
                 /\ faults' = faults \cup {"fetch"}
                 /\ UNCHANGED <<messages, question, pc, response>>
            [] out = "throw" ->
                 /\ Abort("fetchBody")
                 /\ UNCHANGED <<messages, question, i>>
  /\ UNCHANGED <<cfgVars, logVars, trimVars, runVars, auxVars, bridgeVars, uiVars, frontVars, passRoom, nomi_messages, tick, j, answer, processedMessages,
                 totalMessagesFound, sent, aiCalls, storeFault>>

AutoAskAI ==
  /\ variant = "auto"
  /\ pc = "ai"
  /\ aiCalls' = Append(aiCalls, [nomi |-> selected_nomis[i].nomi_uuid,
                                 prompt |-> question, tick |-> tick])
  /\ \E out \in {"ok", "fail", "nocontent"} :
       /\ Outcome(out)
       /\ failed' = IF out = "fail" THEN failed \cup {selected_nomis[i].nomi_uuid} ELSE failed
       /\ CASE out = "ok" ->
                 /\ \E rawAnswer \in AiAnswers : answer' = autoTruncate(rawAnswer)
                 /\ pc' = "send"
                 /\ UNCHANGED <<i, response, faults>>
            [] out = "fail" ->
                 /\ i' = i + 1
                 /\ pc' = "getChat"
                 /\ faults' = faults \cup {"ai"}
                 /\ UNCHANGED <<answer, response>>
            [] out = "nocontent" ->
                 /\ Abort("aiBody")
                 /\ UNCHANGED <<answer, i>>
  /\ UNCHANGED <<cfgVars, requests, lost, trimVars, runVars, auxVars, bridgeVars, uiVars, frontVars, passRoom, nomi_messages, tick, j, messages, question,
                 processedMessages, totalMessagesFound, sent, visited, storeFault>>

AutoSend ==
  /\ variant = "auto"
  /\ pc = "send"
  /\ \E out \in {"ok", "fail"} :
       /\ Outcome(out)
       /\ IF out = "ok"
          THEN /\ sent' = Append(sent, [nomi |-> selected_nomis[i].nomi_uuid,
                                        re |-> question, text |-> answer,
                                        room |-> selected_nomis[i].room_uuid,
                                        tick |-> tick])
               /\ pc' = "insert"
               /\ UNCHANGED <<i, faults>>
          ELSE /\ i' = i + 1
               /\ pc' = "getChat"
               /\ faults' = faults \cup {"send"}
               /\ UNCHANGED sent
       /\ failed' = IF out = "ok" THEN failed ELSE failed \cup {selected_nomis[i].nomi_uuid}
  /\ UNCHANGED <<cfgVars, requests, lost, trimVars, runVars, auxVars, bridgeVars, uiVars, frontVars, passRoom, nomi_messages, tick, j, messages, question, answer,
                 processedMessages, totalMessagesFound, response, aiCalls, visited,
                 storeFault>>

\* the result of the insert is not looked at
AutoInsert ==
  /\ variant = "auto"
  /\ pc = "insert"
  /\ \E out \in {"ok", "fail"} :
       /\ Outcome(out)
       /\ nomi_messages' =
            IF out = "fail" THEN nomi_messages
            ELSE storeInsert(nomi_messages,
                        Record(selected_nomis[i].nomi_uuid, question, question, answer,
                               "auto-question"))
       /\ storeFault' = (storeFault \/ out = "fail")
       /\ faults' = IF out = "fail" THEN faults \cup {"store"} ELSE faults
  /\ processedMessages' =
       Append(processedMessages, [nomiUuid |-> selected_nomis[i].nomi_uuid,
                                  text |-> question, messageType |-> "auto-question"])
  /\ i' = i + 1
  /\ pc' = "getChat"
  /\ UNCHANGED <<cfgVars, logVars, trimVars, runVars, auxVars, bridgeVars, uiVars, frontVars, passRoom, tick, j, messages, question, answer,
                 totalMessagesFound, response, sent, aiCalls, visited>>

AutoRespond ==
  /\ variant = "auto"
  /\ pc = "getChat"
  /\ i > Len(selected_nomis)
  /\ pc' = "idle"
  /\ response' = Response(200, TRUE, Len(processedMessages), AutoKeys)
  /\ UNCHANGED <<cfgVars, logVars, trimVars, runVars, auxVars, bridgeVars, uiVars, frontVars, passRoom, nomi_messages, tick, i, j, messages, question,
                 answer, processedMessages, totalMessagesFound, sent, aiCalls,
                 visited, faults, storeFault, nfaults>>

AutoPass ==
  \/ AutoStart \/ AutoSelect \/ AutoGetChat \/ AutoAskAI \/ AutoSend
  \/ AutoInsert \/ AutoRespond

----------------------------------------------------------------------------
(* Frontend pollNomiMessages: the request-based pass.  Every step invokes *)
(* the bridge as the signed-in user.                                      *)

\* supabase.functions.invoke reports an error for a non-2xx response
invokeError(h) == h.resp.status # 200

Names(roomId) == staleUse \/ roomId \in retired

\* what a Nomi may answer to a chat request: nothing, or one of its remote messages
Replies(n) ==
  {chat[n][k].text : k \in {m \in 1..Len(chat[n]) : chat[n][m].sent = "nomi"}} \cup {NoText}

FeStart ==
  /\ variant = "frontend"
  /\ PassIdle
  /\ tick < MaxTicks
  /\ StartFields
  /\ IF room = NoRoom \/ Len(room.nomis) = 0
     THEN /\ pc' = "idle"
          /\ passRoom' = NoRoom
     ELSE /\ pc' = "request"
          /\ passRoom' = room
  /\ UNCHANGED <<cfgVars, requests, lost, trimVars, runVars, auxVars, bridgeVars, uiVars, frontVars, nomi_messages, response, sent, aiCalls,
                 storeFault, nfaults>>

chatOutcome_promptBusy(h) ==
  CASE invokeError(h) -> "skip"
    [] ~h.resp.success -> "prompt"
    [] Empty(h.resp.data) -> "silent"
    [] IsQuestion(h.resp.data) -> "ask"
    [] OTHER -> "prompt"

\* what the pass does with the result of a request-chat invocation
chatOutcome(h) ==
  CASE invokeError(h) \/ ~h.resp.success -> "skip"
    [] Empty(h.resp.data) -> "silent"
    [] IsQuestion(h.resp.data) -> "ask"
    [] OTHER -> "prompt"

\* the entry kept for a request-chat invocation
Requested(nomi, h) ==
  [nomi |-> nomi, tick |-> tick,
   result |-> CASE invokeError(h) -> "error"
                [] ~h.resp.success -> h.resp.reason
                [] Empty(h.resp.data) -> "silent"
                [] OTHER -> "reply"]

FeRequestChat ==
  /\ variant = "frontend"
  /\ pc = "request"
  /\ i <= Len(passRoom.nomis)
  /\ visited' = visited \cup {passRoom.nomis[i]}
  /\ staleUse' = Names(passRoom.id)
  /\ \E up \in {"ok", "notready", "fail", "throw"}, reply \in Replies(passRoom.nomis[i]) :
       LET h == requestChat(Body("request-chat", passRoom.id, passRoom.nomis[i],
                                 NoText, NoText, NULL), up, reply)
           next == chatOutcome(h)
       IN /\ Outcome(up)
          /\ up # "ok" => reply = NoText
          /\ requests' = Append(requests, Requested(passRoom.nomis[i], h))
          /\ faults' = IF invokeError(h) \/ ~h.resp.success
                       THEN faults \cup {"request"} ELSE faults
          /\ CASE next \in {"skip", "silent"} ->
                    /\ i' = i + 1
                    /\ UNCHANGED <<pc, question, answer>>
               [] next = "ask" ->
                    /\ question' = h.resp.data
                    /\ pc' = "ask"
                    /\ UNCHANGED <<i, answer>>
               [] OTHER ->
                    /\ question' = h.resp.data
                    /\ pc' = "send"
                    /\ answer' = PROMPT
                    /\ UNCHANGED i
  /\ UNCHANGED <<cfgVars, failed, lost, trimVars, runVars, auxVars, bridgeVars, uiVars, room, retired, passRoom, nomi_messages, tick, j, messages,
                 processedMessages, totalMessagesFound, response, sent, aiCalls,
                 storeFault>>

FeAsk ==
  /\ variant = "frontend"
  /\ pc = "ask"
  /\ \E up \in {"ok", "fail", "nocontent"}, rawAnswer \in AiAnswers :
       LET h == askChatgpt(Body("ask-chatgpt", NoRoomId, NULL, NoText, question, NULL),
                           "LOVABLE_API_KEY" \in env, up, rawAnswer)
       IN /\ Outcome(up)
          /\ up # "ok" => rawAnswer = SHORT_ANSWER
          /\ aiCalls' = IF h.calls = <<>> THEN aiCalls
                        ELSE Append(aiCalls, [nomi |-> passRoom.nomis[i],
                                              prompt |-> question, tick |-> tick])
          /\ failed' = IF invokeError(h) THEN failed \cup {passRoom.nomis[i]} ELSE failed
          /\ IF invokeError(h)
             THEN /\ i' = i + 1
                  /\ pc' = "request"
                  /\ faults' = faults \cup {"ai"}
                  /\ UNCHANGED answer
             ELSE /\ answer' = h.resp.data
                  /\ pc' = "send"
                  /\ UNCHANGED <<i, faults>>
  /\ UNCHANGED <<cfgVars, requests, lost, trimVars, runVars, auxVars, bridgeVars, uiVars, frontVars, passRoom, nomi_messages, tick, j, messages, question,
                 processedMessages, totalMessagesFound, response, sent, visited,
                 storeFault>>

\* the outcome of the send-message request is not looked at
FeSend ==
  /\ variant = "frontend"
  /\ pc = "send"
  /\ staleUse' = Names(passRoom.id)
  /\ \E primary \in {"ok", "fail"}, fallback \in {"ok", "fail"} :
       LET h == sendMessage(Body("send-message", passRoom.id, passRoom.nomis[i],
                                 answer, NoText, NULL), primary, fallback)
           ok == Delivered(h.calls)
       IN /\ Outcome(primary)
          /\ primary = "ok" => fallback = "ok"
          /\ sent' = IF ok = <<>> THEN sent
                     ELSE Append(sent, [nomi |-> passRoom.nomis[i], re |-> question,
                                        text |-> answer,
                                        room |-> IF primary = "ok" THEN passRoom.id ELSE NoRoomId,
                                        tick |-> tick])
          /\ faults' = IF primary = "ok" THEN faults ELSE faults \cup {"send"}
          /\ failed' = IF ok = <<>> THEN failed \cup {passRoom.nomis[i]} ELSE failed
  /\ pc' = "save"
  /\ UNCHANGED <<cfgVars, requests, lost, trimVars, runVars, auxVars, bridgeVars, uiVars, room, retired, passRoom, nomi_messages, tick, i, j, messages,
                 question, answer, processedMessages, totalMessagesFound, response,
                 aiCalls, visited, storeFault>>

\* saveMessageToDB followed by setMessages; a store error is swallowed
FeSave ==
  /\ variant = "frontend"
  /\ pc = "save"
  /\ \E out \in {"ok", "fail"} :
       /\ Outcome(out)
       /\ nomi_messages' =
            IF out = "fail" THEN nomi_messages
            ELSE storeInsert(nomi_messages,
                        Record(passRoom.nomis[i], question, question, answer,
                               IF Empty(answer) THEN "regular" ELSE "ai_response"))
       /\ storeFault' = (storeFault \/ out = "fail")
       /\ faults' = IF out = "fail" THEN faults \cup {"store"} ELSE faults
  /\ processedMessages' =
       Append(processedMessages, [nomiUuid |-> passRoom.nomis[i], text |-> question,
                                  messageType |-> "frontend"])
  /\ i' = i + 1
  /\ pc' = "request"
  /\ UNCHANGED <<cfgVars, logVars, trimVars, runVars, auxVars, bridgeVars, uiVars, frontVars, passRoom, tick, j, messages, question, answer,
                 totalMessagesFound, response, sent, aiCalls, visited>>

FeEnd ==
  /\ variant = "frontend"
  /\ pc = "request"
  /\ i > Len(passRoom.nomis)
  /\ pc' = "idle"
  /\ UNCHANGED <<cfgVars, logVars, trimVars, runVars, auxVars, bridgeVars, uiVars, frontVars, passRoom, nomi_messages, tick, i, j, messages,
                 question, answer, processedMessages, totalMessagesFound, response,
                 sent, aiCalls, visited, faults, storeFault, nfaults>>

FePass == FeStart \/ FeRequestChat \/ FeAsk \/ FeSend \/ FeSave \/ FeEnd

----------------------------------------------------------------------------
(* Frontend room membership: initializeRoom, addNomiToRoom and            *)
(* removeNomiFromRoom.  The pass above runs beside them on its timer.     *)

FrontendRequest(action, roomId, nomiUuid, name) ==
  Request("valid", TRUE, Body(action, roomId, nomiUuid, NoText, NoText, name), "frontend")

failureToast(op) ==
  CASE op = "add" -> "Failed to add nomi to room"
    [] op = "remove" -> "Failed to remove nomi from room"
    [] OTHER -> "Failed to initialize room"

successToast(op, old) ==
  CASE op = "add" -> "Nomi added"
    [] op = "remove" -> "Nomi removed"
    [] OTHER -> old

\* the room record the frontend keeps for a listed room
targetRoom(r) == Room(r.uuid, r.name, SeqOf(r.nomis))

heldRoomId == IF room = NoRoom THEN NoRoomId ELSE room.id

removeNomiFromRoom(nomiUuid) ==
  /\ fpc' = Flow("invoke", "remove")
  /\ Accept(FrontendRequest("remove-nomi-from-room", heldRoomId, nomiUuid, NULL))

addNomiToRoom(nomiUuid) ==
  /\ fpc' = Flow("invoke", "add")
  /\ Accept(FrontendRequest("add-nomi-to-room", heldRoomId, nomiUuid, NULL))

\* a click on the remove button of a Nomi of the room
FeRemoveClick ==
  /\ variant = "frontend"
  /\ fpc.at = "idle"
  /\ room # NoRoom
  /\ clicks < MaxClicks
  /\ clicks' = clicks + 1
  /\ \E k \in 1..Len(room.nomis) : removeNomiFromRoom(room.nomis[k])
  /\ staleUse' = Names(heldRoomId)
  /\ UNCHANGED <<cfgVars, logVars, trimVars, runVars, auxVars, passVars, room, retired, toast, user_api_keys, served>>

\* a click on the add button of a Nomi that is not in the room
FeAddClick ==
  /\ variant = "frontend"
  /\ fpc.at = "idle"
  /\ room # NoRoom
  /\ clicks < MaxClicks
  /\ clicks' = clicks + 1
  /\ \E n \in Nomis \ {room.nomis[k] : k \in 1..Len(room.nomis)} : addNomiToRoom(n)
  /\ staleUse' = Names(heldRoomId)
  /\ UNCHANGED <<cfgVars, logVars, trimVars, runVars, auxVars, passVars, room, retired, toast, user_api_keys, served>>

\* the invoke of the membership request returns to the frontend
FeMembershipDone ==
  /\ variant = "frontend"
  /\ fpc.at = "invoke"
  /\ bpc = "idle"
  /\ IF invokeError(Handled(bresp, bcalls))
     THEN /\ toast' = failureToast(fpc.op)
          /\ fpc' = Flow("idle", fpc.op)
          /\ UNCHANGED retired
     ELSE /\ fpc' = Flow("list", fpc.op)
          /\ retired' = IF fpc.op = "remove" THEN retired \cup {breq.body.roomId}
                        ELSE retired
          /\ UNCHANGED toast
  /\ UNCHANGED <<cfgVars, logVars, trimVars, runVars, auxVars, passVars, nfaults, room, staleUse, bridgeVars, clicks>>

\* initializeRoom: fetchNomis and fetchRooms, then the room of the fixed name
FeInitList ==
  /\ variant = "frontend"
  /\ fpc.at = "list"
  /\ bpc = "idle"
  /\ \E up \in {"ok", "fail"} :
       LET h == listRooms(rooms, up)
           named == {r \in h.resp.data : r.name = ROOM_NAME}
       IN /\ Outcome(up)
          /\ IF invokeError(h)
             THEN /\ toast' = failureToast("mount")
                  /\ fpc' = Flow("idle", fpc.op)
                  /\ UNCHANGED <<room, bridgeVars>>
             ELSE IF named # {}
             THEN /\ \E r \in named : room' = targetRoom(r)
                  /\ toast' = successToast(fpc.op, toast)
                  /\ fpc' = Flow("idle", fpc.op)
                  /\ UNCHANGED bridgeVars
             ELSE /\ fpc' = Flow("create", fpc.op)
                  /\ Accept(FrontendRequest("create-room", NoRoomId, NULL, ROOM_NAME))
                  /\ UNCHANGED <<room, toast, user_api_keys, served>>
  /\ UNCHANGED <<cfgVars, logVars, trimVars, runVars, auxVars, passVars, retired, staleUse, clicks>>

\* initializeRoom: the createRoom request returns to the frontend
FeInitCreated ==
  /\ variant = "frontend"
  /\ fpc.at = "create"
  /\ bpc = "idle"
  /\ IF invokeError(Handled(bresp, bcalls))
     THEN /\ toast' = failureToast("mount")
          /\ UNCHANGED room
     ELSE /\ room' = Room(bresp.newRoomId, ROOM_NAME, <<>>)
          /\ toast' = successToast(fpc.op, "Room created")
  /\ fpc' = Flow("idle", fpc.op)
  /\ UNCHANGED <<cfgVars, logVars, trimVars, runVars, auxVars, passVars, nfaults, retired, staleUse, bridgeVars, clicks>>

FeMembership ==
  \/ FeRemoveClick \/ FeAddClick \/ FeMembershipDone \/ FeInitList \/ FeInitCreated

RoomInit ==
  /\ variant = "frontend"
  /\ env = EnvKeys
  /\ chat = [n \in Nomis |-> IF n = "n1" THEN <<Message("nomi", ASKS)>> ELSE <<>>]
  /\ selected_nomis = <<>>
  /\ nomi_messages = <<>>
  /\ tick = 0
  /\ pc = "idle"
  /\ i = 1
  /\ j = 1
  /\ messages = <<>>
  /\ question = <<>>
  /\ answer = <<>>
  /\ processedMessages = <<>>
  /\ totalMessagesFound = 0
  /\ response = NoResponse
  /\ sent = <<>>
  /\ aiCalls = <<>>
  /\ visited = {}
  /\ faults = {}
  /\ storeFault = FALSE
  /\ nfaults = 0
  /\ passRoom = NoRoom
  /\ room = NoRoom
  /\ retired = {}
  /\ staleUse = FALSE
  /\ rooms \in {{}, {RemoteRoom(1, ROOM_NAME, TRUE, Nomis)}}
  /\ nextRoom = 2
  /\ user_api_keys = TRUE
  /\ served = 0
  /\ breq = NoRequest
  /\ bpc = "idle"
  /\ bcalls = <<>>
  /\ bresp = NoResp
  /\ bhandler = "none"
  /\ rm = NoRm
  /\ rooms0 = {}
  /\ fpc = Flow("list", "mount")
  /\ toast = "none"
  /\ clicks = 0
  /\ requests = <<>>
  /\ failed = {}
  /\ lost = {}
  /\ runs = NoRuns
  /\ autoSelectedNomis = {}
  /\ unanswered = FALSE
  /\ trim = NoTrim

RoomNext == FePass \/ FeMembership \/ BridgeSteps

SpecRoom == RoomInit /\ [][RoomNext]_vars

----------------------------------------------------------------------------

PollInit ==
  /\ variant \in {"all", "auto", "frontend"}
  /\ env \in (IF variant = "frontend"
              THEN {EnvKeys, EnvKeys \ {"LOVABLE_API_KEY"}} ELSE Environments)
  /\ chat \in Chats
  /\ nomi_messages = <<>>
  /\ tick = 0
  /\ pc = "idle"
  /\ i = 1
  /\ j = 1
  /\ messages = <<>>
  /\ question = <<>>
  /\ answer = <<>>
  /\ processedMessages = <<>>
  /\ totalMessagesFound = 0
  /\ response = NoResponse
  /\ sent = <<>>
  /\ aiCalls = <<>>
  /\ visited = {}
  /\ faults = {}
  /\ storeFault = FALSE
  /\ nfaults = 0
  /\ selected_nomis \in (IF variant = "auto" THEN {<<>>, Selections} ELSE {<<>>})
  /\ room = (IF variant = "frontend" THEN Room(1, ROOM_NAME, nomis) ELSE NoRoom)
  /\ passRoom = NoRoom
  /\ retired = {}
  /\ staleUse = FALSE
  /\ rooms = {RemoteRoom(1, ROOM_NAME, TRUE, Nomis)}
  /\ nextRoom = 2
  /\ user_api_keys = TRUE
  /\ served = 0
  /\ breq = NoRequest
  /\ bpc = "idle"
  /\ bcalls = <<>>
  /\ bresp = NoResp
  /\ bhandler = "none"
  /\ rm = NoRm
  /\ rooms0 = {}
  /\ fpc = Flow("idle", "none")
  /\ toast = "none"
  /\ clicks = 0
  /\ requests = <<>>
  /\ failed = {}
  /\ lost = {}
  /\ runs = NoRuns
  /\ autoSelectedNomis = {}
  /\ unanswered = FALSE
  /\ trim = NoTrim

PollNext == AllPass \/ AutoPass \/ FePass

SpecPoll == PollInit /\ [][PollNext]_vars

\* the deployed functions together: a poll pass or the bridge serving requests
ServiceInit == PollInit \/ BridgeInit

ServiceNext == PollNext \/ (variant = "bridge" /\ BridgeNext)

SpecService == ServiceInit /\ [][ServiceNext]_vars

----------------------------------------------------------------------------
(* Passes invoked side by side.  An invocation runs from one awaited call  *)
(* to the next; between two of its steps the steps of the other            *)
(* invocation, and the remote and the store, may act.                      *)

\* the answers of the AI gateway to the side-by-side passes: short ones
OverlapAnswers == {SHORT_ANSWER}

\* the calls of poll-nomi-messages and of pollNomiMessages
AllCalls == {"listNomis", "getChat", "check", "ai", "send", "insert", "insertRegular"}
FrontendCalls == {"request", "ask", "sendMessage", "save"}

awaited_detachedInsert(op) == op \in (AllCalls \cup FrontendCalls) \ {"insert", "insertRegular"}

\* the calls whose promise the pass awaits before it goes on
awaited(op) == op \in AllCalls \cup FrontendCalls

\* the invocation returns: its locals are gone, its results stay
Ended(r, status) ==
  [NoRun EXCEPT !.pc = "done", !.status = status, !.processed = r.processed,
                !.unseen = r.unseen, !.detached = r.detached]

\* for (const nomi of nomisData.nomis): the next Nomi or the response
allNextNomi(r) == IF r.i > Len(nomis) THEN Ended(r, 200) ELSE [r EXCEPT !.pc = "getChat"]

\* for (const message of messagesData.messages): on to the next message of
\* the Nomi that comes from the Nomi
allSeek(r) ==
  LET rest == {k \in r.j..Len(r.messages) : fromNomi(r.messages[k])}
  IN IF rest = {} THEN allNextNomi([r EXCEPT !.i = r.i + 1])
     ELSE [r EXCEPT !.j = CHOOSE k \in rest : \A h \in rest : k <= h, !.pc = "check"]

\* the insert a pass issues at its position
insertCall(r, op) ==
  [op |-> op, nomi |-> nomis[r.i],
   record |-> IF op = "insert"
              THEN Record(nomis[r.i], r.messages[r.j].text, r.question, r.answer, "chatgpt")
              ELSE Record(nomis[r.i], r.messages[r.j].text, NoText, NoText, "regular")]

processedEntry(r, op) ==
  [nomiUuid |-> nomis[r.i],
   text |-> IF op = "insert" THEN r.question ELSE r.messages[r.j].text,
   messageType |-> IF op = "insert" THEN "chatgpt" ELSE "regular"]

\* the pass after an insert whose result was dbError or not
afterInsert(r, op, dbError) ==
  allSeek([r EXCEPT !.processed = IF dbError /\ op = "insertRegular" THEN @
                                  ELSE Append(@, processedEntry(r, op)),
                    !.j = r.j + 1])

\* the pass reaches an insert: it waits for it, or (not awaited) goes on
\* without looking at its result
allInsert(r, op) ==
  IF awaited(op) THEN [r EXCEPT !.pc = op]
  ELSE afterInsert([r EXCEPT !.detached = @ \cup {insertCall(r, op)}], op, FALSE)

\* the inserts of a pass that are in flight
Inserts(r) ==
  r.detached \cup (IF r.pc \in {"insert", "insertRegular"} THEN {insertCall(r, r.pc)} ELSE {})

overlapFrame ==
  <<cfgVars, tick, pc, i, j, messages, question, answer, processedMessages,
    totalMessagesFound, response, visited, faults, storeFault, passRoom, frontVars,
    bridgeVars, uiVars, logVars, trimVars, auxVars>>

Run(p, r) == runs' = [runs EXCEPT ![p] = r]

\* the invocations are numbered in the order in which they begin
RunStart(p) ==
  /\ runs[p].pc = "idle"
  /\ \A q \in Passes : q < p => runs[q].pc # "idle"
  /\ IF variant = "all"
     THEN Run(p, IF configured(env) THEN [runs[p] EXCEPT !.pc = "listNomis"]
                 ELSE Ended(runs[p], 500))
     ELSE Run(p, IF room = NoRoom \/ Len(room.nomis) = 0 THEN Ended(runs[p], 0)
                 ELSE [runs[p] EXCEPT !.pc = "request"])
  /\ UNCHANGED <<overlapFrame, nomi_messages, sent, aiCalls, nfaults>>

RunListNomis(p) ==
  /\ runs[p].pc = "listNomis"
  /\ \E out \in {"ok", "fail", "throw"} :
       /\ Outcome(out)
       /\ Run(p, IF out = "ok" THEN allNextNomi(runs[p]) ELSE Ended(runs[p], 500))
  /\ UNCHANGED <<overlapFrame, nomi_messages, sent, aiCalls>>

RunGetChat(p) ==
  /\ runs[p].pc = "getChat"
  /\ \E out \in {"ok", "fail", "throw"} :
       LET r == runs[p]
       IN /\ Outcome(out)
          /\ Run(p, CASE out = "ok" ->
                           allSeek([r EXCEPT !.messages = chat[nomis[r.i]], !.j = 1])
                      [] out = "fail" -> allNextNomi([r EXCEPT !.i = r.i + 1])
                      [] OTHER -> Ended(r, 500))
  /\ UNCHANGED <<overlapFrame, nomi_messages, sent, aiCalls>>

RunCheck(p) ==
  /\ runs[p].pc = "check"
  /\ \E out \in {"ok", "fail"} :
       LET r == runs[p]
           text == r.messages[r.j].text
           data == IF out = "ok" THEN existingMessages(nomis[r.i], text) ELSE {}
           fresh == [r EXCEPT !.unseen = @ \cup {<<nomis[r.i], text>>}]
       IN /\ Outcome(out)
          /\ Run(p, CASE data # {} -> allSeek([r EXCEPT !.j = r.j + 1])
                      [] IsQuestion(text) -> [fresh EXCEPT !.question = text, !.pc = "ai"]
                      [] OTHER -> allInsert(fresh, "insertRegular"))
  /\ UNCHANGED <<overlapFrame, nomi_messages, sent, aiCalls>>

RunAskAI(p) ==
  /\ runs[p].pc = "ai"
  /\ \E out \in {"ok", "fail", "nocontent"}, rawAnswer \in OverlapAnswers :
       LET r == runs[p]
       IN /\ Outcome(out)
          /\ out # "ok" => rawAnswer = SHORT_ANSWER
          /\ aiCalls' = Append(aiCalls, [nomi |-> nomis[r.i], prompt |-> r.question,
                                         tick |-> p])
          /\ Run(p, CASE out = "ok" ->
                           [r EXCEPT !.answer = trimToLastPunctuation(rawAnswer,
                                                                      MAX_MESSAGE_LENGTH),
                                     !.pc = "send"]
                      [] out = "fail" -> allSeek([r EXCEPT !.j = r.j + 1])
                      [] OTHER -> Ended(r, 500))
  /\ UNCHANGED <<overlapFrame, nomi_messages, sent>>

RunSend(p) ==
  /\ runs[p].pc = "send"
  /\ \E out \in {"ok", "fail"} :
       LET r == runs[p]
       IN /\ Outcome(out)
          /\ sent' = IF out = "ok"
                     THEN Append(sent, [nomi |-> nomis[r.i], re |-> r.messages[r.j].text,
                                        text |-> r.answer, room |-> NoRoomId, tick |-> p])
                     ELSE sent
          /\ Run(p, IF out = "ok" THEN allInsert(r, "insert")
                    ELSE allSeek([r EXCEPT !.j = r.j + 1]))
  /\ UNCHANGED <<overlapFrame, nomi_messages, aiCalls>>

\* an insert of the pass completes; the pass that waits for it goes on
RunInsert(p) ==
  /\ \E c \in Inserts(runs[p]), out \in {"ok", "fail"} :
       LET r == runs[p]
       IN /\ Outcome(out)
          /\ nomi_messages' = IF out = "ok" THEN storeInsert(nomi_messages, c.record)
                              ELSE nomi_messages
          /\ Run(p, IF c \in r.detached THEN [r EXCEPT !.detached = @ \ {c}]
                    ELSE afterInsert(r, c.op, out = "fail"))
  /\ UNCHANGED <<overlapFrame, sent, aiCalls>>

\* for (const nomi of room.nomis): the next Nomi of the room or the end
feNext(r) == IF r.i > Len(room.nomis) THEN Ended(r, 0) ELSE [r EXCEPT !.pc = "request"]

RunRequestChat(p) ==
  /\ runs[p].pc = "request"
  /\ \E up \in {"ok", "notready", "fail", "throw"}, reply \in Replies(room.nomis[runs[p].i]) :
       LET r == runs[p]
           h == requestChat(Body("request-chat", room.id, room.nomis[r.i], NoText, NoText,
                                 NULL), up, reply)
           next == chatOutcome(h)
       IN /\ Outcome(up)
          /\ up # "ok" => reply = NoText
          /\ Run(p, CASE next \in {"skip", "silent"} -> feNext([r EXCEPT !.i = r.i + 1])
                      [] next = "ask" -> [r EXCEPT !.question = h.resp.data, !.pc = "ask"]
                      [] OTHER -> [r EXCEPT !.question = h.resp.data, !.answer = PROMPT,
                                            !.pc = "sendMessage"])
  /\ UNCHANGED <<overlapFrame, nomi_messages, sent, aiCalls>>

RunAsk(p) ==
  /\ runs[p].pc = "ask"
  /\ \E up \in {"ok", "fail", "nocontent"}, rawAnswer \in OverlapAnswers :
       LET r == runs[p]
           h == askChatgpt(Body("ask-chatgpt", NoRoomId, NULL, NoText, r.question, NULL),
                           "LOVABLE_API_KEY" \in env, up, rawAnswer)
       IN /\ Outcome(up)
          /\ up # "ok" => rawAnswer = SHORT_ANSWER
          /\ aiCalls' = IF h.calls = <<>> THEN aiCalls
                        ELSE Append(aiCalls, [nomi |-> room.nomis[r.i],
                                              prompt |-> r.question, tick |-> p])
          /\ Run(p, IF invokeError(h) THEN feNext([r EXCEPT !.i = r.i + 1])
                    ELSE [r EXCEPT !.answer = h.resp.data, !.pc = "sendMessage"])
  /\ UNCHANGED <<overlapFrame, nomi_messages, sent>>

\* the outcome of the send-message request is not looked at
RunSendMessage(p) ==
  /\ runs[p].pc = "sendMessage"
  /\ \E primary \in {"ok", "fail"}, fallback \in {"ok", "fail"} :
       LET r == runs[p]
           h == sendMessage(Body("send-message", room.id, room.nomis[r.i], r.answer,
                                 NoText, NULL), primary, fallback)
       IN /\ Outcome(primary)
          /\ primary = "ok" => fallback = "ok"
          /\ sent' = IF Delivered(h.calls) = <<>> THEN sent
                     ELSE Append(sent, [nomi |-> room.nomis[r.i], re |-> r.question,
                                        text |-> r.answer,
                                        room |-> IF primary = "ok" THEN room.id ELSE NoRoomId,
                                        tick |-> p])
          /\ Run(p, [r EXCEPT !.pc = "save"])
  /\ UNCHANGED <<overlapFrame, nomi_messages, aiCalls>>

\* saveMessageToDB; a store error is swallowed
RunSave(p) ==
  /\ runs[p].pc = "save"
  /\ \E out \in {"ok", "fail"} :
       LET r == runs[p]
           record == Record(room.nomis[r.i], r.question, r.question, r.answer,
                            IF Empty(r.answer) THEN "regular" ELSE "ai_response")
       IN /\ Outcome(out)
          /\ nomi_messages' = IF out = "ok" THEN storeInsert(nomi_messages, record)
                              ELSE nomi_messages
          /\ Run(p, feNext([r EXCEPT !.processed =
                                       Append(@, [nomiUuid |-> room.nomis[r.i],
                                                  text |-> r.question,
                                                  messageType |-> "frontend"]),
                                     !.i = r.i + 1]))
  /\ UNCHANGED <<overlapFrame, sent, aiCalls>>

\* the remote histories of the side-by-side passes: messages of the Nomis only
OverlapChats ==
  {c \in Chats : \A n \in Nomis : \A k \in 1..Len(c[n]) :
                   c[n][k] \in {Message("nomi", HELLO), Message("nomi", ASKS)}}

OverlapInit ==
  /\ variant \in {"all", "frontend"}
  /\ env = EnvKeys
  /\ chat \in OverlapChats
  /\ nomi_messages = <<>>
  /\ tick = 0
  /\ pc = "idle"
  /\ i = 1
  /\ j = 1
  /\ messages = <<>>
  /\ question = <<>>
  /\ answer = <<>>
  /\ processedMessages = <<>>
  /\ totalMessagesFound = 0
  /\ response = NoResponse
  /\ sent = <<>>
  /\ aiCalls = <<>>
  /\ visited = {}
  /\ faults = {}
  /\ storeFault = FALSE
  /\ nfaults = 0
  /\ selected_nomis = <<>>
  /\ room = (IF variant = "frontend" THEN Room(1, ROOM_NAME, nomis) ELSE NoRoom)
  /\ passRoom = NoRoom
  /\ retired = {}
  /\ staleUse = FALSE
  /\ rooms = {RemoteRoom(1, ROOM_NAME, TRUE, Nomis)}
  /\ nextRoom = 2
  /\ user_api_keys = TRUE
  /\ served = 0
  /\ breq = NoRequest
  /\ bpc = "idle"
  /\ bcalls = <<>>
  /\ bresp = NoResp
  /\ bhandler = "none"
  /\ rm = NoRm
  /\ rooms0 = {}
  /\ fpc = Flow("idle", "none")
  /\ toast = "none"
  /\ clicks = 0
  /\ requests = <<>>
  /\ failed = {}
  /\ lost = {}
  /\ trim = NoTrim
  /\ runs = NoRuns
  /\ autoSelectedNomis = {}
  /\ unanswered = FALSE

OverlapNext ==
  \E p \in Passes :
    \/ RunStart(p) \/ RunListNomis(p) \/ RunGetChat(p) \/ RunCheck(p) \/ RunAskAI(p)
    \/ RunSend(p) \/ RunInsert(p)
    \/ RunRequestChat(p) \/ RunAsk(p) \/ RunSendMessage(p) \/ RunSave(p)

SpecOverlap == OverlapInit /\ [][OverlapNext]_vars

----------------------------------------------------------------------------
(* Properties of the poll passes *)

RecordsFor(uuid, text) == existingMessages(uuid, text)

RepliesTo(uuid, text) ==
  {k \in 1..Len(sent) : sent[k].nomi = uuid /\ sent[k].re = text}

\* the text under which a pass files a message of the remote history
FiledAs(text) == IF variant = "auto" THEN Trim(text) ELSE text

\* C1: a character-origin message of the remote history that successive poll
\* passes observe gets at most one record and at most one reply, as long as
\* no store call failed (the crash window between send and insert aside).
C1_Idempotence ==
  ~storeFault =>
    \A n \in Nomis : \A k \in 1..Len(chat[n]) :
      chat[n][k].sent = "nomi" =>
        /\ Cardinality(RecordsFor(n, FiledAs(chat[n][k].text))) <= 1
        /\ Cardinality(RepliesTo(n, FiledAs(chat[n][k].text))) <= 1

\* C2: a record of an answered question exists only if the answer was first
\* obtained from the AI and then delivered by a successful send.
C2_InsertOnlyAfterSend ==
  \A k \in 1..Len(nomi_messages) :
    LET r == nomi_messages[k]
    IN IsQuestion(r.message_text) =>
         /\ \E c \in 1..Len(aiCalls) :
              aiCalls[c].nomi = r.nomi_uuid /\ aiCalls[c].prompt = r.question
         /\ \E m \in RepliesTo(r.nomi_uuid, r.message_text) : sent[m].text = r.answer

\* C3: a record of a message that is not a question is of kind regular, has no
\* extracted question, and exists only if the fixed prompt was delivered for
\* it; no AI call is made for such a message.
C3_NonQuestionPath ==
  /\ \A k \in 1..Len(nomi_messages) :
       LET r == nomi_messages[k]
       IN ~IsQuestion(r.message_text) =>
            /\ r.message_type \in {"regular", "passthrough"}
            /\ Empty(r.question)
            /\ \E m \in RepliesTo(r.nomi_uuid, r.message_text) : sent[m].text = PROMPT
  /\ \A c \in 1..Len(aiCalls) : IsQuestion(aiCalls[c].prompt)

PerCharacterFaults == {"fetch", "fetchBody", "ai", "aiBody", "send", "store"}

Characters ==
  IF variant = "auto"
  THEN {selected_nomis[k].nomi_uuid : k \in 1..Len(selected_nomis)}
  ELSE Nomis

\* C4: a pass of the edge functions that met a failure while processing one
\* character still visits every character of its list and ends with its
\* normal success response.
C4_FailureIsolation ==
  (variant \in {"all", "auto"} /\ pc = "idle" /\ tick > 0
     /\ faults \cap PerCharacterFaults # {})
  => (response.status = 200 /\ visited = Characters)

----------------------------------------------------------------------------
(* trimToLastPunctuation applied to one text *)

\* the characters of the texts tried: a letter, a blank and the six marks
Alphabet == {"a", " "} \cup {punctuationMarks[m] : m \in 1..Len(punctuationMarks)}

ShortTexts == SeqsUpTo(Alphabet, MaxLen)

\* texts longer than the default limit: a mark late in the prefix, no mark
\* at all, and a mark at the first character only
LongTexts ==
  {LONG_ANSWER, [k \in 1..LongLen |-> "a"], [k \in 1..LongLen |-> IF k = 1 THEN "!" ELSE "a"]}

TrimInputs ==
  {Trimming(t, L, NoText, FALSE) : t \in ShortTexts, L \in 1..MaxLen}
  \cup {Trimming(t, MAX_MESSAGE_LENGTH, NoText, FALSE) : t \in LongTexts \cup ShortTexts}

ApplyTrim ==
  /\ variant = "trim"
  /\ ~trim.done
  /\ trim' = [trim EXCEPT !.result = trimToLastPunctuation(trim.text, trim.maxLength),
                          !.done = TRUE]
  /\ UNCHANGED <<pollVars, frontVars, bridgeVars, uiVars, logVars, runVars, auxVars>>

TrimInit ==
  /\ variant = "trim"
  /\ trim \in TrimInputs
  /\ env = EnvKeys
  /\ chat = [n \in Nomis |-> <<>>]
  /\ selected_nomis = <<>>
  /\ nomi_messages = <<>>
  /\ tick = 0
  /\ pc = "idle"
  /\ i = 1
  /\ j = 1
  /\ messages = <<>>
  /\ question = <<>>
  /\ answer = <<>>
  /\ processedMessages = <<>>
  /\ totalMessagesFound = 0
  /\ response = NoResponse
  /\ sent = <<>>
  /\ aiCalls = <<>>
  /\ visited = {}
  /\ faults = {}
  /\ storeFault = FALSE
  /\ nfaults = 0
  /\ passRoom = NoRoom
  /\ room = NoRoom
  /\ retired = {}
  /\ staleUse = FALSE
  /\ rooms = {}
  /\ nextRoom = 2
  /\ user_api_keys = TRUE
  /\ served = 0
  /\ breq = NoRequest
  /\ bpc = "idle"
  /\ bcalls = <<>>
  /\ bresp = NoResp
  /\ bhandler = "none"
  /\ rm = NoRm
  /\ rooms0 = {}
  /\ fpc = Flow("idle", "none")
  /\ toast = "none"
  /\ clicks = 0
  /\ requests = <<>>
  /\ failed = {}
  /\ lost = {}
  /\ runs = NoRuns
  /\ autoSelectedNomis = {}
  /\ unanswered = FALSE

TrimNext == ApplyTrim

SpecTrim == TrimInit /\ [][TrimNext]_vars

----------------------------------------------------------------------------
(* poll-nomi-messages invoked tick after tick without end.  A call of the   *)
(* pass to the chat service or to the AI gateway may stay without answer.   *)

\* the steps of the pass that await fetch(...)
UpstreamCalls == {"listNomis", "getChat", "ai", "send"}

\* fetch is called without signal or timeout: its promise stays pending for
\* as long as the remote does not answer, and the handler with it
Unanswered ==
  /\ variant = "all"
  /\ pc \in UpstreamCalls
  /\ ~unanswered
  /\ Outcome("fail")
  /\ unanswered' = TRUE
  /\ UNCHANGED <<cfgVars, passVars, frontVars, bridgeVars, uiVars, logVars, trimVars,
                 runVars, autoSelectedNomis>>

\* the scheduler goes on invoking the function: the count of ticks is kept
\* within MaxTicks by forgetting the oldest one
NextPeriod ==
  /\ variant = "all"
  /\ PassIdle
  /\ tick = MaxTicks
  /\ tick' = tick - 1
  /\ UNCHANGED <<cfgVars, frontVars, bridgeVars, uiVars, logVars, trimVars, runVars,
                 auxVars, nomi_messages, pc, i, j, messages, question, answer,
                 processedMessages, totalMessagesFound, response, sent, aiCalls, visited,
                 faults, storeFault, nfaults, passRoom>>

LiveInit == PollInit /\ variant = "all" /\ env = EnvKeys /\ chat \in OverlapChats

LiveNext == (~unanswered /\ AllPass) \/ Unanswered \/ NextPeriod

\* a step of the handler is taken whenever one is possible
SpecLive == LiveInit /\ [][LiveNext]_vars /\ WF_vars(LiveNext)

----------------------------------------------------------------------------
(* The auto-polling selection of the page: fetchAutoSelectedNomis and      *)
(* toggleAutoSelection over the selected_nomis table                       *)

MaxToggles == 3

\* the rooms a checkbox names: null (the default context) or a room
SelectionRooms == {NoRoomId, 1}

\* `${nomiUuid}|${roomUuid || 'default'}`
selectionKey(nomiUuid, roomUuid) == <<nomiUuid, roomUuid>>

SelectionRow(nomiUuid, roomUuid) == [nomi_uuid |-> nomiUuid, room_uuid |-> roomUuid]

\* delete().eq('nomi_uuid', nomiUuid).eq('room_uuid', roomUuid): the rows left;
\* an eq filter with null matches no row
selectionDelete(table, nomiUuid, roomUuid) ==
  SelectSeq(table, LAMBDA row : ~(/\ row.nomi_uuid = nomiUuid
                                  /\ roomUuid # NoRoomId
                                  /\ row.room_uuid = roomUuid))

\* insert into selected_nomis: the table keeps one row for a (nomi_uuid,
\* room_uuid) pair, the null room included, and refuses a second one
selectionInsert(table, row) ==
  LET taken == \E k \in 1..Len(table) : /\ table[k].nomi_uuid = row.nomi_uuid
                                        /\ table[k].room_uuid = row.room_uuid
  IN [error |-> taken, table |-> IF taken THEN table ELSE Append(table, row)]

selectionFrame ==
  <<variant, env, chat, passVars, frontVars, bridgeVars, fpc, logVars, trimVars, runVars,
    unanswered>>

\* the effect on mount: the set is rebuilt from the rows of the table
FetchAutoSelectedNomis ==
  /\ variant = "select"
  /\ \E out \in {"ok", "fail"} :
       /\ Outcome(out)
       /\ autoSelectedNomis' =
            IF out = "fail" THEN autoSelectedNomis
            ELSE {selectionKey(selected_nomis[k].nomi_uuid, selected_nomis[k].room_uuid) :
                    k \in 1..Len(selected_nomis)}
  /\ UNCHANGED <<selectionFrame, selected_nomis, toast, clicks>>

ToggleAutoSelection ==
  /\ variant = "select"
  /\ clicks < MaxToggles
  /\ clicks' = clicks + 1
  /\ \E nomiUuid \in Nomis, roomUuid \in SelectionRooms, out \in {"ok", "fail"} :
       LET key == selectionKey(nomiUuid, roomUuid)
           isCurrentlySelected == key \in autoSelectedNomis
           inserted == selectionInsert(selected_nomis, SelectionRow(nomiUuid, roomUuid))
           error == out = "fail" \/ (~isCurrentlySelected /\ inserted.error)
       IN /\ Outcome(out)
          /\ selected_nomis' =
               CASE out = "fail" -> selected_nomis
                 [] isCurrentlySelected -> selectionDelete(selected_nomis, nomiUuid, roomUuid)
                 [] OTHER -> inserted.table
          /\ autoSelectedNomis' =
               CASE error -> autoSelectedNomis
                 [] isCurrentlySelected -> autoSelectedNomis \ {key}
                 [] OTHER -> autoSelectedNomis \cup {key}
          /\ toast' = CASE error -> "Error"
                        [] isCurrentlySelected -> "Removed from auto-polling"
                        [] OTHER -> "Added to auto-polling"
  /\ UNCHANGED <<selectionFrame, nfaults>>

SelectionInit ==
  /\ variant = "select"
  /\ trim = NoTrim
  /\ env = EnvKeys
  /\ chat = [n \in Nomis |-> <<>>]
  /\ selected_nomis = <<>>
  /\ nomi_messages = <<>>
  /\ tick = 0
  /\ pc = "idle"
  /\ i = 1
  /\ j = 1
  /\ messages = <<>>
  /\ question = <<>>
  /\ answer = <<>>
  /\ processedMessages = <<>>
  /\ totalMessagesFound = 0
  /\ response = NoResponse
  /\ sent = <<>>
  /\ aiCalls = <<>>
  /\ visited = {}
  /\ faults = {}
  /\ storeFault = FALSE
  /\ nfaults = 0
  /\ passRoom = NoRoom
  /\ room = NoRoom
  /\ retired = {}
  /\ staleUse = FALSE
  /\ rooms = {}
  /\ nextRoom = 2
  /\ user_api_keys = TRUE
  /\ served = 0
  /\ breq = NoRequest
  /\ bpc = "idle"
  /\ bcalls = <<>>
  /\ bresp = NoResp
  /\ bhandler = "none"
  /\ rm = NoRm
  /\ rooms0 = {}
  /\ fpc = Flow("idle", "none")
  /\ toast = "none"
  /\ clicks = 0
  /\ requests = <<>>
  /\ failed = {}
  /\ lost = {}
  /\ runs = NoRuns
  /\ autoSelectedNomis = {}
  /\ unanswered = FALSE

SelectionNext == FetchAutoSelectedNomis \/ ToggleAutoSelection

SpecSelection == SelectionInit /\ [][SelectionNext]_vars

----------------------------------------------------------------------------
(* Properties of the bridge dispatcher and of room membership *)

\* a request that passed authentication, the key lookup and body parsing
Dispatched == breq # NoRequest /\ breq.auth = "valid" /\ user_api_keys /\ breq.json

UnknownActionResponse == Resp(400, FALSE, NULL, "Unknown action", NoText)

RoutedByAction ==
  /\ bhandler = (IF breq.body.action \in KnownActions THEN breq.body.action ELSE "unknown")
  /\ breq.body.action \notin KnownActions =>
       bpc = "idle" /\ bresp = UnknownActionResponse /\ bcalls = <<>>

MissingField(body) ==
  CASE body.action = "create-room" -> NoId(body.name)
    [] body.action \in {"add-nomi-to-room", "remove-nomi-from-room"} ->
         NoRoomRef(body.roomId) \/ NoId(body.nomiUuid)
    [] body.action \in {"get-room-messages", "request-chat"} -> NoRoomRef(body.roomId)
    [] body.action = "get-nomi-messages" -> NoId(body.nomiUuid)
    [] body.action = "send-message" ->
         NoId(body.nomiUuid) \/ NoRoomRef(body.roomId) \/ Empty(body.message)
    [] body.action = "ask-chatgpt" -> Empty(body.question)
    [] OTHER -> FALSE

\* C6: a dispatched request that lacks a required payload field of its action
\* is answered with a 4xx status, and no upstream call is made for it.
C6_RequestValidation ==
  (Dispatched /\ MissingField(breq.body)) =>
     /\ bcalls = <<>>
     /\ bpc = "idle"
     /\ bresp.status \in 400..499

RemoveRequest == breq # NoRequest /\ bhandler = "remove-nomi-from-room"

\* the room the request names, as it was when the request arrived
OldRooms == {r \in rooms0 : r.uuid = breq.body.roomId}

PreDeleteFailures == {FetchRoomsFailed, RoomNotFound, CannotRemoveLast, DeleteFailed}

\* C7: in a remove request the DELETE is issued only after the rooms were
\* fetched, the room found and a non-empty remaining member set computed; the
\* creating POST is issued only after the DELETE returned success; a request
\* that ends with a failure from before the delete leaves the remote rooms
\* as they were.
C7_TwoPhaseOrder ==
  RemoveRequest =>
    /\ \A k \in 1..Len(bcalls) :
         bcalls[k].op = "DELETE rooms" =>
           /\ k > 1
           /\ bcalls[k - 1] = Call("GET rooms", NoRoomId, "ok")
           /\ OldRooms # {}
           /\ \A r \in OldRooms : r.nomis \ {breq.body.nomiUuid} # {}
    /\ \A k \in 1..Len(bcalls) :
         bcalls[k].op = "POST rooms" =>
           /\ k > 1
           /\ bcalls[k - 1] = Call("DELETE rooms", breq.body.roomId, "ok")
    /\ (bpc = "idle" /\ bresp \in PreDeleteFailures) => rooms = rooms0

\* a remove request whose DELETE was refused: the room is still there
C7_Witness ==
  /\ RemoveRequest
  /\ bpc = "idle"
  /\ bresp = DeleteFailed
  /\ Len(bcalls) = 2
  /\ bcalls[2] = Call("DELETE rooms", breq.body.roomId, "fail")
  /\ OldRooms # {}
  /\ rooms = rooms0

\* the remove request deleted the room and did not recreate it
PartialFailure ==
  /\ RemoveRequest
  /\ bpc = "idle"
  /\ bresp.status # 200
  /\ \E k \in 1..Len(bcalls) : bcalls[k] = Call("DELETE rooms", breq.body.roomId, "ok")

\* what the bridge answers, and what the frontend shows, when a remove
\* request fails before the DELETE succeeded
PreDeleteResponses == PreDeleteFailures \cup {Thrown}
PreDeleteToasts == {failureToast("remove")}

\* C8: when the delete succeeded and the recreate failed, the response of
\* the bridge and the toast of the frontend differ from every response and
\* toast of a remove request that failed before the delete.
C8_PartialFailureDistinct ==
  PartialFailure =>
    /\ bresp \notin PreDeleteResponses
    /\ (fpc = Flow("idle", "remove") /\ breq.from = "frontend") => toast \notin PreDeleteToasts

RemoveSucceeded == RemoveRequest /\ bpc = "idle" /\ bresp.status = 200

\* C9: after a successful remove of c the remote rooms hold, under the
\* returned id, a room with the old name and cross-talk flag whose members
\* are the old members without c; the id differs from the old one, and no
\* room has the old id.
C9_RemoveRoundTrip ==
  RemoveSucceeded =>
    /\ Cardinality(OldRooms) = 1
    /\ \A old \in OldRooms :
         /\ \E new \in rooms :
              /\ new.uuid = bresp.newRoomId
              /\ new.name = old.name
              /\ new.backchannelingEnabled = old.backchannelingEnabled
              /\ new.nomis = old.nomis \ {breq.body.nomiUuid}
              /\ new.uuid # old.uuid
         /\ \A r \in rooms : r.uuid # old.uuid

\* a successful remove of a member from a room without cross-talk
C9_Witness ==
  /\ RemoveSucceeded
  /\ \E old \in OldRooms :
       /\ breq.body.nomiUuid \in old.nomis
       /\ ~old.backchannelingEnabled
  /\ \E new \in rooms : new.uuid = bresp.newRoomId /\ new.nomis # {}

\* C10: once a remove succeeded the frontend holds the id of the new room,
\* and no request-chat, send-message, add or remove it issues afterwards
\* names the old id.
C10_NoStaleRoomId ==
  /\ ~staleUse
  /\ fpc.at = "idle" => heldRoomId \notin retired

\* the rooms were fetched for the request in progress
RoomsFetched == Len(bcalls) >= 1 /\ bcalls[1] = Call("GET rooms", NoRoomId, "ok")

\* C11: a remove request that would leave the room without members is
\* answered with the 'cannot remove last Nomi' error and a 4xx status; no
\* DELETE and no POST is issued and the remote rooms stay as they were.
C11_RefuseLastMember ==
  (RemoveRequest /\ RoomsFetched
     /\ \E old \in OldRooms : old.nomis \ {breq.body.nomiUuid} = {}) =>
    /\ bpc = "idle"
    /\ bresp.status \in 400..499
    /\ bresp.error = "Cannot remove last Nomi from room. Delete the room instead."
    /\ bcalls = <<Call("GET rooms", NoRoomId, "ok")>>
    /\ rooms = rooms0

\* the only member of a room is asked to be removed
C11_Witness ==
  /\ RemoveRequest
  /\ RoomsFetched
  /\ bpc = "idle"
  /\ \E old \in OldRooms : old.nomis = {breq.body.nomiUuid}
  /\ bresp.status = 400
  /\ rooms = rooms0

AddRequest == breq # NoRequest /\ bhandler = "add-nomi-to-room"

PutIssued == \E k \in 1..Len(bcalls) : bcalls[k].op = "PUT rooms"

\* C12: the member list submitted by the PUT of an add request holds exactly
\* the members the room had when it was fetched and the new Nomi, each once;
\* for a Nomi that is already a member it is the unchanged member set.
C12_AddReadModifyWrite ==
  (AddRequest /\ PutIssued) =>
    /\ Cardinality(OldRooms) = 1
    /\ \A old \in OldRooms :
         /\ Elements(rm.list) = old.nomis \cup {breq.body.nomiUuid}
         /\ Len(rm.list) = Cardinality(Elements(rm.list))
         /\ breq.body.nomiUuid \in old.nomis => Elements(rm.list) = old.nomis

\* a Nomi that is already in the room is added again
C12_Witness ==
  /\ AddRequest
  /\ PutIssued
  /\ bpc = "idle"
  /\ bresp.status = 200
  /\ \E old \in OldRooms :
       /\ breq.body.nomiUuid \in old.nomis
       /\ Cardinality(old.nomis) = 2
       /\ Len(rm.list) = 2

RoomIds(rs) == {r.uuid : r \in rs}

\* C13: after a successful add of c the remote rooms hold a room with the
\* id, name and cross-talk flag the room had before and with c among its
\* members; an add request issues no DELETE and no POST, and the ids of the
\* remote rooms stay the same.
C13_AddRoundTrip ==
  AddRequest =>
    /\ \A k \in 1..Len(bcalls) : bcalls[k].op \in {"GET rooms", "PUT rooms"}
    /\ RoomIds(rooms) = RoomIds(rooms0)
    /\ (bpc = "idle" /\ bresp.status = 200) =>
         /\ Cardinality(OldRooms) = 1
         /\ \A old \in OldRooms :
              \E new \in rooms :
                /\ new.uuid = old.uuid
                /\ new.name = old.name
                /\ new.backchannelingEnabled = old.backchannelingEnabled
                /\ breq.body.nomiUuid \in new.nomis
                /\ new.nomis = old.nomis \cup {breq.body.nomiUuid}

\* a Nomi joins a room without cross-talk that it was not a member of
C13_Witness ==
  /\ AddRequest
  /\ bpc = "idle"
  /\ bresp.status = 200
  /\ \E old \in OldRooms :
       /\ breq.body.nomiUuid \notin old.nomis
       /\ ~old.backchannelingEnabled
       /\ \E new \in rooms : new.uuid = old.uuid /\ breq.body.nomiUuid \in new.nomis

\* C14: an add request whose roomId matches no room of the fetched list is
\* answered 404 'Room not found', and no PUT is issued for it.
C14_AddUnknownRoom ==
  (AddRequest /\ RoomsFetched /\ OldRooms = {}) =>
    /\ bpc = "idle"
    /\ bresp.status = 404
    /\ bresp.error = "Room not found"
    /\ ~PutIssued
    /\ rooms = rooms0

\* an add request names a room id that no remote room has
C14_Witness ==
  /\ AddRequest
  /\ RoomsFetched
  /\ rooms0 # {}
  /\ breq.body.roomId \notin RoomIds(rooms0)
  /\ bpc = "idle"
  /\ bresp.status = 404

FetchRequest ==
  /\ Dispatched
  /\ bpc = "idle"
  /\ bhandler \in {"get-room-messages", "get-nomi-messages"}
  /\ bcalls # <<>>

\* C15: in a request for messages the fallback endpoint is queried only
\* after the primary endpoint answered with a non-success status; a request
\* whose upstream reads all answered is a success, and when every endpoint
\* queried answered non-success it carries an empty message list.
C15_FetchMessagesFallback ==
  FetchRequest =>
    /\ Len(bcalls) <= 2
    /\ bcalls[1].op \in {"GET rooms/messages", "GET nomis/chat"}
    /\ Len(bcalls) = 2 =>
         /\ bcalls[1] = Call("GET rooms/messages", breq.body.roomId, "fail")
         /\ bcalls[2].op = "GET rooms/chat"
    /\ (\A k \in 1..Len(bcalls) : bcalls[k].out # "throw") => bresp.status = 200
    /\ (\A k \in 1..Len(bcalls) : bcalls[k].out = "fail") =>
         bresp.status = 200 /\ bresp.data = <<>>
    /\ bcalls[Len(bcalls)].out = "ok" => bresp.data = RemoteChat

\* both endpoints of a room answered non-success
C15_Witness ==
  /\ FetchRequest
  /\ bhandler = "get-room-messages"
  /\ Len(bcalls) = 2
  /\ bcalls[2] = Call("GET rooms/chat", breq.body.roomId, "fail")
  /\ bresp.status = 200
  /\ bresp.data = <<>>

SendRequest ==
  /\ Dispatched
  /\ bpc = "idle"
  /\ bhandler = "send-message"
  /\ bcalls # <<>>

\* C16: in a send-message request the direct send to the Nomi is issued
\* only after the send to the room answered non-success; when the room send
\* succeeds it is the only upstream send, and at most one of the two sends
\* of a request delivers the text.
C16_SendPathSelection ==
  SendRequest =>
    /\ Len(bcalls) <= 2
    /\ bcalls[1].op = "POST rooms/chat"
    /\ bcalls[1].room = breq.body.roomId
    /\ Len(bcalls) = 2 =>
         /\ bcalls[2].op = "POST nomis/chat"
         /\ bcalls[1].out \notin {"ok", "throw"}
    /\ bcalls[1].out = "ok" => Len(bcalls) = 1
    /\ Len(Delivered(bcalls)) <= 1

\* the room send was refused and the direct send delivered the text
C16_Witness ==
  /\ SendRequest
  /\ Len(bcalls) = 2
  /\ bcalls[1].out = "fail"
  /\ bcalls[2] = Call("POST nomis/chat", NoRoomId, "ok")
  /\ bresp.success

\* C17: when the room send and the direct send of a send-message request
\* both answer non-success, the response is one upstream error that carries
\* the status of the room send and the status of the direct send.
C17_SendDoubleFailure ==
  (SendRequest /\ Len(bcalls) = 2
     /\ \A k \in 1..2 : bcalls[k].out \notin {"ok", "throw"}) =>
    /\ bresp.reason = "upstream_error"
    /\ ~bresp.success
    /\ \A k \in 1..2 :
         \E n \in 1..Len(bresp.upstream) :
           bresp.upstream[n].status = Answer(bcalls[k].out).status

ChatRequest ==
  /\ Dispatched
  /\ bpc = "idle"
  /\ bhandler = "request-chat"
  /\ bcalls # <<>>
  /\ bcalls[1].out # "throw"

ReplyOutcome == bresp.status = 200 /\ bresp.success /\ bresp.reason = NULL
NotReadyOutcome == bresp.status = 200 /\ ~bresp.success /\ bresp.reason = "not_ready"
UpstreamErrorOutcome ==
  bresp.status = 200 /\ ~bresp.success /\ bresp.reason = "upstream_error"

\* C18: a request-chat request whose upstream call answered ends in exactly
\* one of three outcomes: the reply on upstream success, 'not_ready' on
\* status 400 with a body naming RoomNomiNotReadyForMessage, 'upstream_error'
\* with the upstream status and body on any other non-success answer.
C18_RequestReplyOutcomes ==
  ChatRequest =>
    LET a == Answer(bcalls[1].out)
    IN /\ Len(bcalls) = 1
       /\ ReplyOutcome <=> a.status \in 200..299
       /\ NotReadyOutcome <=> (a.status = 400 /\ a.body = NOT_READY)
       /\ UpstreamErrorOutcome <=>
            (a.status \notin 200..299 /\ ~(a.status = 400 /\ a.body = NOT_READY))
       /\ UpstreamErrorOutcome => bresp.upstream = <<a>>
       /\ ReplyOutcome \/ NotReadyOutcome \/ UpstreamErrorOutcome

\* a status 400 that is not the busy state is an upstream error
C18_Witness ==
  /\ ChatRequest
  /\ bcalls[1].out = "badrequest"
  /\ UpstreamErrorOutcome
  /\ bresp.upstream = <<[status |-> 400, body |-> "InvalidRequest"]>>

\* the requests of the frontend passes that were answered 'not_ready'
Busy == {k \in 1..Len(requests) : requests[k].result = "not_ready"}

RequestedIn(n, t) ==
  \E m \in 1..Len(requests) : requests[m].nomi = n /\ requests[m].tick = t

\* C19: when request-chat for a Nomi answers 'not_ready', the frontend pass
\* requests that Nomi only once in the tick, makes no AI call, sends nothing
\* and records nothing for it in the tick, goes on to the other Nomis of the
\* room, and requests the Nomi again in the next tick.
C19_TransientBusy ==
  variant = "frontend" =>
    \A k \in Busy :
      LET n == requests[k].nomi
          t == requests[k].tick
      IN /\ \A m \in 1..Len(requests) :
              (m # k /\ requests[m].nomi = n) => requests[m].tick # t
         /\ \A m \in 1..Len(aiCalls) : ~(aiCalls[m].nomi = n /\ aiCalls[m].tick = t)
         /\ \A m \in 1..Len(sent) : ~(sent[m].nomi = n /\ sent[m].tick = t)
         /\ tick = t =>
              \A m \in 1..Len(processedMessages) : processedMessages[m].nomiUuid # n
         /\ (tick = t /\ pc = "idle") =>
              \A c \in Elements(passRoom.nomis) : RequestedIn(c, t)
         /\ (tick > t /\ pc = "idle") => RequestedIn(n, t + 1)

\* a Nomi that was busy in the first tick replies in the second
C19_Witness ==
  /\ variant = "frontend"
  /\ pc = "idle"
  /\ tick = 2
  /\ \E k \in Busy : requests[k].nomi = "n1" /\ requests[k].tick = 1
  /\ RequestedIn("n2", 1)
  /\ \E m \in 1..Len(requests) :
       requests[m] = [nomi |-> "n1", tick |-> 2, result |-> "reply"]

\* the positions of the marks within the first maxLength characters
MarksInPrefix ==
  {k \in 1..trim.maxLength :
     k <= Len(trim.text) /\ \E m \in 1..Len(punctuationMarks) : trim.text[k] = punctuationMarks[m]}

LastMark == CHOOSE k \in MarksInPrefix : \A h \in MarksInPrefix : h <= k

\* C20: the result of the truncation equals the text when it is at most
\* maxLength long; otherwise it is the first maxLength characters cut just
\* after the last mark among them, the mark included, and all of the first
\* maxLength characters when none of them is a mark.
C20_Truncation ==
  trim.done =>
    trim.result =
      (IF Len(trim.text) <= trim.maxLength THEN trim.text
       ELSE IF MarksInPrefix = {} THEN SubSeq(trim.text, 1, trim.maxLength)
       ELSE SubSeq(trim.text, 1, LastMark))

----------------------------------------------------------------------------
(* Properties of the poll passes: what is sent, what is classified, how a  *)
(* pass answers                                                           *)

\* C21: every answer a pass is about to send to the remote chat, and every
\* answer it delivered, has at most MAX_MESSAGE_LENGTH characters, in each of
\* the three passes.
C21_OutboundLengthCap ==
  /\ pc = "send" => Len(answer) <= MAX_MESSAGE_LENGTH
  /\ \A k \in 1..Len(sent) : Len(sent[k].text) <= MAX_MESSAGE_LENGTH

\* the text without its inner monologue: every segment between two single
\* asterisks is removed, a double asterisk is kept
RECURSIVE StripMonologue(_)
StripMonologue(s) ==
  IF s = <<>> THEN s
  ELSE IF Head(s) # "*" THEN <<Head(s)>> \o StripMonologue(Tail(s))
  ELSE IF Len(s) >= 2 /\ s[2] = "*" THEN <<"*", "*">> \o StripMonologue(SubSeq(s, 3, Len(s)))
  ELSE LET closing == {k \in 3..Len(s) : s[k] = "*"}
       IN IF closing = {} THEN s
          ELSE StripMonologue(SubSeq(s, (CHOOSE k \in closing : \A c \in closing : k <= c) + 1,
                                     Len(s)))

StrippedQuestion(text) == IsQuestion(StripMonologue(text))

\* the message the running pass has classified, once it has done so
Classified ==
  CASE variant = "all" /\ pc \in {"ai", "insertRegular"} -> messages[j].text
    [] variant = "frontend" /\ pc \in {"ask", "send"} -> question
    [] OTHER -> NoText

TreatedAsQuestion ==
  \/ variant = "all" /\ pc = "ai"
  \/ variant = "frontend" /\ (pc = "ask" \/ (pc = "send" /\ answer # PROMPT))

\* C22: a pass treats a character's message as a question exactly when the
\* message without its inner monologue, trimmed, ends with "?", and the prompt
\* of every AI call is the stripped text of a message of that character.
C22_Classification ==
  /\ Classified # NoText => (TreatedAsQuestion <=> StrippedQuestion(Classified))
  /\ \A c \in 1..Len(aiCalls) :
       \E k \in 1..Len(chat[aiCalls[c].nomi]) :
         LET m == chat[aiCalls[c].nomi][k]
         IN /\ m.sent = "nomi"
            /\ aiCalls[c].prompt \in {StripMonologue(m.text), Trim(StripMonologue(m.text))}

\* the calls of a request that reach the remote chat, the AI or the store
NoPassCalls ==
  visited = {} /\ aiCalls = <<>> /\ sent = <<>> /\ nomi_messages = <<>> /\ requests = <<>>

KeyNotConfigured == Resp(500, FALSE, NULL, "Nomi API key not configured. Please add it in Settings.", NoText)

\* C23: a pass of the edge functions started without one of its credentials
\* ends at once with an error response and makes no chat call, AI call, send
\* or insert; a request of a signed-in user without a stored chat key gets an
\* error response from the bridge, which makes no upstream call for it.
C23_ConfigurationError ==
  /\ (variant \in {"all", "auto"} /\ ~(EnvKeys \subseteq env)) =>
       /\ pc = "idle"
       /\ NoPassCalls
       /\ tick > 0 => (response.status = 500 /\ ~response.success)
  /\ (variant = "bridge" /\ ~user_api_keys) =>
       /\ bpc = "idle"
       /\ bcalls = <<>>
       /\ rooms = (IF breq = NoRequest THEN rooms ELSE rooms0)
       /\ breq # NoRequest =>
            /\ ~IsOk(bresp) /\ ~bresp.success
            /\ breq.auth = "valid" => bresp = KeyNotConfigured

C23_Witness ==
  /\ variant = "all"
  /\ "SUPABASE" \notin env
  /\ tick = MaxTicks
  /\ pc = "idle"
  /\ response.status = 500
  /\ NoPassCalls

\* what the spec's response names totalCharactersChecked, messagesFound and
\* messagesProcessed
CountKeys == {"totalNomis", "totalMessagesFound", "processedCount"}

\* C24: a finished pass of the edge functions whose failures were all met
\* while processing single characters answers 200, and the body of that
\* response has an error list beside the three counts.
C24_BatchResponse ==
  (variant \in {"all", "auto"} /\ pc = "idle" /\ tick > 0
     /\ faults # {} /\ faults \subseteq PerCharacterFaults)
  => /\ response.status = 200
     /\ "errors" \in response.keys
     /\ CountKeys \subseteq response.keys

\* a text the remote history of n holds from the user and not from the Nomi
UserOnly(n, text) ==
  /\ \E k \in 1..Len(chat[n]) : chat[n][k] = Message("user", text)
  /\ ~\E k \in 1..Len(chat[n]) :
        chat[n][k].sent = "nomi" /\ FiledAs(chat[n][k].text) = FiledAs(text)

Untouched(n, text) ==
  /\ ~\E c \in 1..Len(aiCalls) : aiCalls[c].nomi = n /\ aiCalls[c].prompt = text
  /\ RepliesTo(n, text) = {}
  /\ RecordsFor(n, text) = {}
  /\ ~\E p \in 1..Len(processedMessages) :
        processedMessages[p].nomiUuid = n /\ processedMessages[p].text = text

\* C25: for a message of the remote history that comes from the user, no pass
\* calls the AI, sends a reply or inserts a record, and the message is not in
\* the processed list.
C25_UserMessagesDiscarded ==
  \A n \in Nomis : \A k \in 1..Len(chat[n]) :
    (chat[n][k].sent # "nomi" /\ UserOnly(n, chat[n][k].text))
      => Untouched(n, FiledAs(chat[n][k].text))

C25_Witness ==
  /\ variant = "all"
  /\ pc = "idle"
  /\ response.status = 200
  /\ chat["n1"] = <<Message("user", USERTEXT), Message("nomi", ASKS)>>
  /\ totalMessagesFound = 2
  /\ RecordsFor("n1", ASKS) # {}
  /\ Untouched("n1", USERTEXT)

\* the Nomi of the entry a step appends to a log, none when it appends nothing
Appended(before, after, field) ==
  IF Len(after) > Len(before) THEN {after[Len(after)][field]} ELSE {}

WorkedOn ==
  Appended(aiCalls, aiCalls', "nomi") \cup Appended(sent, sent', "nomi")
    \cup Appended(nomi_messages, nomi_messages', "nomi_uuid")

SkippedStep ==
  (variant \in {"all", "auto"} /\ tick' = tick) =>
    /\ WorkedOn \cap failed = {}
    /\ (pc # "idle" /\ pc' = "idle" /\ failed # {} /\ response'.status = 200)
         => visited' = Characters

\* C26: once the AI call or the send for a message of a character has failed
\* in a pass of the edge functions, no step of that pass makes an AI call, a
\* send or an insert for that character, and the pass that ends normally has
\* visited every character.
C26_SkipOnUpstreamError == [][SkippedStep]_vars

----------------------------------------------------------------------------
(* The window between a delivered reply and its insert *)

\* the pass after the one that sent reply k has ended normally, without a failure
NextPassDone(k) ==
  /\ tick = sent[k].tick + 1
  /\ pc = "idle"
  /\ faults = {}
  /\ response.status = 200

SameMessage(k, m) == sent[m].nomi = sent[k].nomi /\ sent[m].re = sent[k].re

LostFor(n, text) == {k \in lost : sent[k].nomi = n /\ sent[k].re = text}

\* every failure so far was an insert that did not complete after its send
OnlyLostInserts == nfaults = Cardinality(lost)

AtMostOneDuplicateEach ==
  \A n \in Nomis : \A h \in 1..Len(chat[n]) :
    Cardinality(RepliesTo(n, chat[n][h].text))
      <= 1 + Cardinality(LostFor(n, chat[n][h].text))

----------------------------------------------------------------------------
(* Properties of passes invoked side by side *)

\* the calls of one invocation that have been issued and have not completed
InFlight(r) ==
  (IF r.pc \in AllCalls \cup FrontendCalls THEN {[op |-> r.pc]} ELSE {}) \cup r.detached

PassList == IF variant = "all" THEN nomis ELSE room.nomis

PlaceOf(n) == CHOOSE k \in 1..Len(PassList) : PassList[k] = n

\* the calls of a log follow, invocation by invocation, the order of the list
InListOrder(log) ==
  \A k \in 1..Len(log), m \in 1..Len(log) :
    (k < m /\ log[k].tick = log[m].tick) => PlaceOf(log[k].nomi) <= PlaceOf(log[m].nomi)

\* C27: an invocation of the pass has at most one upstream or store call in
\* flight, so that it turns to a character only when no call for the
\* preceding one is outstanding, and its AI calls and its sends follow the
\* order of the list.
C27_SequentialProcessing ==
  /\ \A p \in Passes : Cardinality(InFlight(runs[p])) <= 1
  /\ \A p \in Passes : runs[p].pc \in {"idle", "done"} => InFlight(runs[p]) = {}
  /\ InListOrder(aiCalls)
  /\ InListOrder(sent)

C27_Witness ==
  \E p \in Passes :
    /\ runs[p].i = 2
    /\ Cardinality(InFlight(runs[p])) = 1
    /\ \E k \in 1..Len(sent) : sent[k].tick = p /\ sent[k].nomi = PassList[1]
    /\ \E k \in 1..Len(nomi_messages) : nomi_messages[k].nomi_uuid = PassList[1]

InProgress == {p \in Passes : runs[p].pc \notin {"idle", "done"}}

\* C28: of the passes the page starts for its room (timer ticks and the
\* immediate poll) at most one is in progress at any time.
C28_NonOverlapGuard == variant = "frontend" => Cardinality(InProgress) <= 1

\* the invocations that found no record for the message
FoundNone(n, text) == {p \in Passes : <<n, text>> \in runs[p].unseen}

AllReturned == \A p \in Passes : runs[p].pc = "done" /\ runs[p].detached = {}

\* C29: the store keeps every record handed to it, whatever records it holds:
\* when the invocations of poll-nomi-messages have returned without a failed
\* call, a message of a character has as many records as invocations that
\* found no record for it, and a question as many replies; two invocations
\* that both found none leave two records and two replies.
C29_CheckThenInsertRace ==
  (variant = "all" /\ nfaults = 0 /\ AllReturned) =>
    \A n \in Nomis, text \in {HELLO, ASKS} :
      /\ Cardinality(RecordsFor(n, text)) = Cardinality(FoundNone(n, text))
      /\ IsQuestion(text) => Cardinality(RepliesTo(n, text)) = Cardinality(FoundNone(n, text))

C29_Witness ==
  /\ variant = "all"
  /\ AllReturned
  /\ FoundNone("n1", ASKS) = Passes
  /\ Cardinality(RecordsFor("n1", ASKS)) = 2
  /\ Cardinality(RepliesTo("n1", ASKS)) = 2


----------------------------------------------------------------------------
(* Properties of the store, the responses and the dedup key *)

IsPrefix(s, t) == Len(s) <= Len(t) /\ \A k \in 1..Len(s) : t[k] = s[k]

\* C32: every step of a poll pass and of the bridge leaves each record of
\* nomi_messages as it is and in its place; a write adds one record at the end.
C32_AppendOnly ==
  [][/\ IsPrefix(nomi_messages, nomi_messages')
     /\ Len(nomi_messages') <= Len(nomi_messages) + 1]_vars

C32_Witness ==
  /\ Len(nomi_messages) >= 2
  /\ nomi_messages[1].nomi_uuid = nomi_messages[2].nomi_uuid
  /\ nomi_messages[1].message_text = nomi_messages[2].message_text
  /\ nomi_messages[1] # nomi_messages[2]


\* the texts of the messages of the Nomi in the remote history, as fetched
RawTexts(n) == {chat[n][m].text : m \in {h \in 1..Len(chat[n]) : chat[n][h].sent = "nomi"}}

\* C34: every record of nomi_messages carries the id of its Nomi and the text
\* of one of that Nomi's messages exactly as the remote history holds it, so
\* that an existence check on (id, raw text) finds the record.
C34_DedupKeyConsistency ==
  \A k \in 1..Len(nomi_messages) :
    /\ nomi_messages[k].nomi_uuid \in Nomis
    /\ nomi_messages[k].message_text \in RawTexts(nomi_messages[k].nomi_uuid)


\* C35: in the first pass of poll-nomi-messages over an empty store, the count
\* of the response is the length of processedMessages, and the entries of
\* processedMessages are, one for one and in order, the records the pass has
\* inserted: an insert that failed leaves no entry.
C35_ResponseStoreAgreement ==
  (variant = "all" /\ tick = 1) =>
    /\ response.status = 200 => response.processedCount = Len(processedMessages)
    /\ Len(processedMessages) = Len(nomi_messages)
    /\ \A k \in 1..Len(processedMessages) :
         k <= Len(nomi_messages) =>
           /\ processedMessages[k].nomiUuid = nomi_messages[k].nomi_uuid
           /\ processedMessages[k].messageType = nomi_messages[k].message_type


----------------------------------------------------------------------------
(* remove-nomi-from-room for a Nomi that is no member *)

NonMemberRemove ==
  /\ RemoveRequest
  /\ RoomsFetched
  /\ bpc = "idle"
  /\ \E old \in OldRooms : old.nomis # {} /\ breq.body.nomiUuid \notin old.nomis

\* C37: a remove request that names a Nomi outside the members of an existing,
\* non-empty room issues the DELETE all the same, and when it succeeds the
\* remote holds under a new id a room with the very members of the old one,
\* and no room under the old id.
C37_RemoveOfNonMember ==
  NonMemberRemove =>
    /\ \E k \in 1..Len(bcalls) : bcalls[k].op = "DELETE rooms"
    /\ bresp.status = 200 =>
         \A old \in OldRooms :
           /\ \E new \in rooms : /\ new.uuid = bresp.newRoomId
                                 /\ new.uuid # old.uuid
                                 /\ new.nomis = old.nomis
           /\ \A r \in rooms : r.uuid # old.uuid

C37_Witness ==
  /\ NonMemberRemove
  /\ bresp.status = 200
  /\ \E old \in OldRooms : \E new \in rooms : new.uuid # old.uuid /\ new.nomis = old.nomis


----------------------------------------------------------------------------
(* trimToLastPunctuation: algebraic properties *)

\* C38: the result of trimToLastPunctuation is a prefix of the text of at most
\* maxLength characters, is not empty unless the text is, and is returned
\* unchanged when the function is applied to it again.
C38_TrimPrefixIdempotent ==
  trim.done =>
    /\ IsPrefix(trim.result, trim.text)
    /\ Len(trim.result) <= trim.maxLength
    /\ trim.text # <<>> => trim.result # <<>>
    /\ trimToLastPunctuation(trim.result, trim.maxLength) = trim.result

\* a long text cut after a mark before the limit
C38_Witness ==
  /\ trim.done
  /\ Len(trim.text) > trim.maxLength
  /\ trim.result # <<>>
  /\ Len(trim.result) < trim.maxLength
  /\ IsPrefix(trim.result, trim.text)


----------------------------------------------------------------------------
(* Properties of the auto-polling selection *)

StoredKeys ==
  {selectionKey(selected_nomis[k].nomi_uuid, selected_nomis[k].room_uuid) :
     k \in 1..Len(selected_nomis)}

\* C33: the selected_nomis table holds at most one row for a (Nomi, room)
\* pair, the null room included, and while no call of the page has failed the
\* page's selected set is the set of the keys stored, so that a pair toggled
\* off has no row.
C33_SelectionSetSemantics ==
  variant = "select" =>
    /\ \A k \in 1..Len(selected_nomis), m \in 1..Len(selected_nomis) :
         (selected_nomis[k].nomi_uuid = selected_nomis[m].nomi_uuid
            /\ selected_nomis[k].room_uuid = selected_nomis[m].room_uuid) => k = m
    /\ nfaults = 0 => autoSelectedNomis = StoredKeys


----------------------------------------------------------------------------
(* Properties of the pass invoked again and again *)

\* C31: every pass of poll-nomi-messages that has begun comes to its end and
\* answers: none of its upstream calls keeps it waiting for ever.
C31_PassTerminates == (pc # "idle") ~> (pc = "idle")


\* the step is an AI call or a send of the pass that failed
FailedStep ==
  \/ pc = "ai" /\ pc' # "send"
  \/ pc = "send" /\ sent' = sent

\* a failed AI call or send leaves the store as it is and leads to no insert
LeftUnrecorded ==
  FailedStep => nomi_messages' = nomi_messages /\ pc' \notin {"insert", "insertRegular"}

\* a question of the history gets its record, unless a call is never answered
EventuallyRecorded ==
  \A n \in Nomis :
    ASKS \in RawTexts(n) => <>(RecordsFor(n, ASKS) # {} \/ unanswered)

\* the pass works on a message (AI call, send, insert) only while the store
\* holds no record for it
NotProcessedAgain ==
  pc \in {"ai", "send", "insert", "insertRegular"} =>
    RecordsFor(nomis[i], messages[j].text) = {}

\* C36: in poll-nomi-messages invoked tick after tick, a failed AI call or
\* send inserts nothing; every question that stays in the history is recorded
\* in the end, provided every call is answered and the failures come to an end;
\* and a message that has a record is not worked on again.
C36_EventualHandling ==
  /\ [][LeftUnrecorded]_vars
  /\ EventuallyRecorded
  /\ []NotProcessedAgain

=============================================================================
